---- MODULE Spec2Model ----
(***************************************************************************)
(* Reminder backend: the location trigger engine (scanAndTrigger), the     *)
(* speech stage (ensureReminderTTS), the enrichment pass                   *)
(* (processBackgroundAI) and the reminder CRUD handlers, as state          *)
(* machines over the persisted Reminder / Notification collections; the    *)
(* places lookup, the OTP password reset and the rate limiter follow.      *)
(*                                                                         *)
(* Time is in milliseconds on a local clock whose origin is a Sunday       *)
(* 00:00; a handler is split into one action per await, so that handlers   *)
(* interleave exactly where the event loop lets them.                      *)
(***************************************************************************)
EXTENDS Integers, Sequences, FiniteSets, TLC

VARIABLES
  clock,          \* Date.now() of the server, ms
  envMaxMeters,   \* process.env.LOCATION_MAX_TRIGGER_METERS, a sequence of characters
  reminders,      \* the Reminder collection: id -> document
  notifications,  \* the Notification collection, in creation order
  scan,           \* scanAndTrigger requests in flight: id -> locals
  req,            \* reminder requests (update / ensure-now) and their background pass
  ttsf,           \* ensureReminderTTS call frames, one per caller
  trigLog,        \* history: per reminder, the scan times of its triggers
  lastTts,        \* history: per reminder, the last completed speech-stage call
  nScans,         \* number of scan requests started
  nReqs,          \* number of reminder requests started
  users,          \* the User collection: email -> the password reset fields
  buckets,        \* rateLimiter.js: the Map of key -> times of the requests passed on
  passed,         \* history: the requests each limiter let through or rejected
  nearby          \* nearbyBestPlaceByKeyword calls in flight: id -> locals

vars == <<clock, envMaxMeters, reminders, notifications, scan, req, ttsf,
          trigLog, lastTts, nScans, nReqs, users, buckets, passed, nearby>>

-----------------------------------------------------------------------------
(* Values *)

NoDate == -1            \* a Date field that is null / absent
NaN == -999             \* the number NaN
MinuteMs == 60000
HourMs == 60 * MinuteMs
DayMs == 24 * HourMs

Users == {"u1", "u2"}
RIds == {1, 2, 3}
ScanIds == {"s1", "s2"}
ReqIds == {"q1", "q2"}
Pids == ScanIds \cup ReqIds

FullName(u) == IF u = "u1" THEN <<"Ada", "Byron">> ELSE <<>>

DayNames == <<"Sunday", "Monday", "Tuesday", "Wednesday", "Thursday", "Friday", "Saturday">>

\* Date.prototype.getDay on the local clock
getDay(t) == (t \div DayMs) % 7

getDayStringMutShift(t) == DayNames[((getDay(t) + 1) % 7) + 1]

\* ['Sunday', ..., 'Saturday'][date.getDay()]
getDayString(t) == DayNames[getDay(t) + 1]

NoTts == [voiceId |-> "", textHash |-> "", audio |-> "", status |-> "pending", generatedAt |-> NoDate]

NoPlaceRec == [lat |-> NaN, lng |-> NaN, placeId |-> "", name |-> "", rating |-> 0]

NoScheduleTime == [minutesBeforeStart |-> -1, fixedTime |-> ""]

\* A Reminder document with the schema's defaults
NewReminder(u, ty, ti) ==
  [exists |-> TRUE, user |-> u, type |-> ty, title |-> ti, locationName |-> "",
   startDate |-> NoDate, day |-> "", status |-> "active", lastTriggeredAt |-> NoDate,
   triggeredLocation |-> NoPlaceRec, isManualSchedule |-> FALSE, scheduleType |-> "",
   scheduleTime |-> NoScheduleTime, scheduleDays |-> <<>>, aiSuggested |-> FALSE,
   aiNotificationLine |-> "", notificationPreferenceMinutes |-> 10,
   isCompleted |-> FALSE, tts |-> NoTts]

Absent == [NewReminder("u1", "Task", "") EXCEPT !.exists = FALSE]

SeqToSet(q) == {q[i] : i \in 1..Len(q)}

-----------------------------------------------------------------------------
(* utils/ttsService.js *)

FirstName(u) == IF Len(FullName(u)) > 0 THEN FullName(u)[1] ELSE "there"

buildNotificationText(reminder, user) ==
  IF reminder.aiNotificationLine # "" THEN reminder.aiNotificationLine
  ELSE IF reminder.type = "Task"
    THEN "Hey " \o FirstName(user) \o ", reminder: " \o reminder.title \o "."
  ELSE IF reminder.type = "Meeting"
    THEN "Hey " \o FirstName(user) \o ", reminder for meeting: " \o reminder.title \o "."
  ELSE IF reminder.type = "Location"
    THEN "Hey " \o FirstName(user) \o ", you are near "
         \o (IF reminder.locationName # "" THEN reminder.locationName ELSE "your saved place")
         \o "."
  ELSE "Hey " \o FirstName(user) \o ", you have a reminder: " \o reminder.title \o "."

\* sha256 of `${voiceId}::${text}`; the digest is identified with the string hashed
computeTextHash(text, voiceId) == voiceId \o "::" \o text

DefaultVoiceId == "v1"

\* overrideVoiceId || reminder.tts?.voiceId || process.env.ELEVENLABS_DEFAULT_VOICE_ID
PickVoice(reminder) ==
  IF reminder.tts.voiceId # "" THEN reminder.tts.voiceId ELSE DefaultVoiceId

\* "If already generated and hash matches, skip"
TtsMutSkip(reminder, hash) == FALSE

TtsUpToDate(reminder, hash) ==
  /\ reminder.tts.textHash = hash
  /\ reminder.tts.status = "ready"
  /\ reminder.tts.audio # ""

NoFrame == [pc |-> "none", rid |-> 1, user |-> "u1", text |-> "", voiceId |-> "",
            hash |-> "", synths |-> 0, writes |-> 0, pre |-> FALSE, disturbed |-> FALSE]

NoLast == [ok |-> FALSE, text |-> "", voiceId |-> ""]

\* History: the previous speech-stage call on this reminder completed with status
\* ready and audio, no other call wrote the tts record during it or since, and the
\* text and voice of this call are those of that call.
RepeatOf(rid, text, voiceId) ==
  /\ lastTts[rid].ok
  /\ lastTts[rid].text = text
  /\ lastTts[rid].voiceId = voiceId

\* History: frame p writes the tts record of its reminder; calls in flight on the
\* same reminder are no longer undisturbed.
FramesAfterWrite(p, newFrame) ==
  [q \in Pids |->
     IF q = p THEN newFrame
     ELSE IF ttsf[q].rid = ttsf[p].rid /\ ttsf[q].pc \in {"pending", "synth"}
       THEN [ttsf[q] EXCEPT !.disturbed = TRUE]
     ELSE ttsf[q]]

\* A caller enters ensureReminderTTS(reminderId, { user })
TtsCall(p, rid, u) ==
  ttsf' = [ttsf EXCEPT ![p] = [NoFrame EXCEPT !.pc = "find", !.rid = rid, !.user = u]]

\* const reminder = await Reminder.findById(...); hash check; mark pending locally
TtsFind(p) ==
  /\ ttsf[p].pc = "find"
  /\ LET f == ttsf[p]
         reminder == reminders[f.rid]
         text == buildNotificationText(reminder, f.user)
         voiceId == PickVoice(reminder)
         hash == computeTextHash(text, voiceId)
     IN IF ~reminder.exists
          THEN ttsf' = [ttsf EXCEPT ![p].pc = "thrown"]
          ELSE ttsf' = [ttsf EXCEPT ![p] =
                 [f EXCEPT !.text = text, !.voiceId = voiceId, !.hash = hash,
                           !.pre = RepeatOf(f.rid, text, voiceId),
                           !.pc = IF TtsUpToDate(reminder, hash) THEN "ret" ELSE "pending"]]
  /\ UNCHANGED <<users, buckets, passed, nearby, clock, envMaxMeters, reminders, notifications, scan, req,
                 trigLog, lastTts, nScans, nReqs>>

\* reminder.tts.{voiceId,textHash,status,generatedAt} = ...; await reminder.save()
TtsSavePending(p) ==
  /\ ttsf[p].pc = "pending"
  /\ LET f == ttsf[p]
     IN IF ~reminders[f.rid].exists
          THEN /\ ttsf' = [ttsf EXCEPT ![p].pc = "thrown"]
               /\ UNCHANGED <<reminders, lastTts>>
          ELSE /\ reminders' = [reminders EXCEPT ![f.rid].tts =
                    [@ EXCEPT !.voiceId = f.voiceId, !.textHash = f.hash,
                              !.status = "pending", !.generatedAt = NoDate]]
               /\ lastTts' = [lastTts EXCEPT ![f.rid] = NoLast]
               /\ ttsf' = FramesAfterWrite(p, [f EXCEPT !.pc = "synth", !.writes = @ + 1])
  /\ UNCHANGED <<users, buckets, passed, nearby, clock, envMaxMeters, notifications, scan, req, trigLog, nScans, nReqs>>

TtsSynthMutNoFailed(p, ok) ==
  /\ ttsf[p].pc = "synth"
  /\ LET f == ttsf[p]
     IN IF ~reminders[f.rid].exists
          THEN /\ ttsf' = [ttsf EXCEPT ![p].pc = "thrown", ![p].synths = @ + 1]
               /\ UNCHANGED <<reminders, lastTts>>
          ELSE IF ok
            THEN /\ reminders' = [reminders EXCEPT ![f.rid].tts =
                      [@ EXCEPT !.audio = f.hash, !.status = "ready", !.generatedAt = clock]]
                 /\ lastTts' = [lastTts EXCEPT ![f.rid] =
                      IF f.disturbed THEN NoLast
                      ELSE [ok |-> TRUE, text |-> f.text, voiceId |-> f.voiceId]]
                 /\ ttsf' = FramesAfterWrite(p, [f EXCEPT !.pc = "ret", !.synths = @ + 1,
                                                          !.writes = @ + 1])
            ELSE /\ UNCHANGED reminders
                 /\ lastTts' = [lastTts EXCEPT ![f.rid] = NoLast]
                 /\ ttsf' = FramesAfterWrite(p, [f EXCEPT !.pc = "thrown", !.synths = @ + 1])
  /\ UNCHANGED <<users, buckets, passed, nearby, clock, envMaxMeters, notifications, scan, req, trigLog, nScans, nReqs>>

\* generateElevenLabsAudio returns (ok) or throws; the result is saved
TtsSynth(p, ok) ==
  /\ ttsf[p].pc = "synth"
  /\ LET f == ttsf[p]
     IN IF ~reminders[f.rid].exists
          THEN /\ ttsf' = [ttsf EXCEPT ![p].pc = "thrown", ![p].synths = @ + 1]
               /\ UNCHANGED <<reminders, lastTts>>
          ELSE IF ok
            THEN /\ reminders' = [reminders EXCEPT ![f.rid].tts =
                      [@ EXCEPT !.audio = f.hash, !.status = "ready", !.generatedAt = clock]]
                 /\ lastTts' = [lastTts EXCEPT ![f.rid] =
                      IF f.disturbed THEN NoLast
                      ELSE [ok |-> TRUE, text |-> f.text, voiceId |-> f.voiceId]]
                 /\ ttsf' = FramesAfterWrite(p, [f EXCEPT !.pc = "ret", !.synths = @ + 1,
                                                          !.writes = @ + 1])
            ELSE /\ reminders' = [reminders EXCEPT ![f.rid].tts.status = "failed"]
                 /\ lastTts' = [lastTts EXCEPT ![f.rid] = NoLast]
                 /\ ttsf' = FramesAfterWrite(p, [f EXCEPT !.pc = "thrown", !.synths = @ + 1,
                                                          !.writes = @ + 1])
  /\ UNCHANGED <<users, buckets, passed, nearby, clock, envMaxMeters, notifications, scan, req, trigLog, nScans, nReqs>>

-----------------------------------------------------------------------------
(* controllers/locationController.js *)

Digits == <<"0", "1", "2", "3", "4", "5", "6", "7", "8", "9">>

IsDigit(c) == \E i \in 1..10 : Digits[i] = c

DigitVal(c) == (CHOOSE i \in 1..10 : Digits[i] = c) - 1

\* number of leading digits of s from position i on
RECURSIVE DigitRun(_, _)
DigitRun(s, i) == IF i <= Len(s) /\ IsDigit(s[i]) THEN 1 + DigitRun(s, i + 1) ELSE 0

\* value of the n digits of s from position i on, after the value acc
RECURSIVE DigitsValue(_, _, _, _)
DigitsValue(s, i, n, acc) ==
  IF n = 0 THEN acc ELSE DigitsValue(s, i + 1, n - 1, 10 * acc + DigitVal(s[i]))

RECURSIVE SkipSpace(_, _)
SkipSpace(s, i) == IF i <= Len(s) /\ s[i] = " " THEN SkipSpace(s, i + 1) ELSE i

\* parseInt(s, 10): leading blanks, an optional sign, the longest run of digits; NaN without one
parseInt(s) ==
  LET i0 == SkipSpace(s, 1)
      signed == i0 <= Len(s) /\ s[i0] \in {"-", "+"}
      i1 == IF signed THEN i0 + 1 ELSE i0
      n == DigitRun(s, i1)
      v == DigitsValue(s, i1, n, 0)
  IN IF n = 0 THEN NaN ELSE IF signed /\ s[i0] = "-" THEN 0 - v ELSE v

\* Math.max: NaN if an argument is NaN
MathMax(a, b) == IF a = NaN \/ b = NaN THEN NaN ELSE IF a >= b THEN a ELSE b

\* a > b on numbers: false when either is NaN
NumGt(a, b) == a # NaN /\ b # NaN /\ a > b

DefaultMaxMeters == <<"6", "0">>

\* Math.max(10, parseInt(process.env.LOCATION_MAX_TRIGGER_METERS || '60', 10))
MAX_METERS(envValue) ==
  MathMax(10, parseInt(IF envValue = <<>> THEN DefaultMaxMeters ELSE envValue))

MmPerMilliDegree == 111195   \* 6371000 m * pi / 180, per thousandth of a degree, in mm

\* haversineMeters for two points on the equator or on one meridian, where the
\* great-circle distance is R times the angle between them; coordinates in
\* microdegrees, result in millimetres
haversineMeters(lat1, lon1, lat2, lon2) ==
  LET d == IF lat1 = lat2 THEN lon2 - lon1 ELSE lat2 - lat1
      a == IF d < 0 THEN 0 - d ELSE d
  IN (a * MmPerMilliDegree) \div 1000

\* Math.round of a non-negative length in millimetres, to metres
MathRound(mm) == (mm + 500) \div 1000

\* dist: rounded metres when the place has numeric coordinates, else null (NaN here)
PlaceDistance(lat, lng, place) ==
  IF place.coords THEN MathRound(haversineMeters(lat, lng, place.lat, place.lng)) ELSE NaN

TooFarMutGe(dist, maxMeters) == dist = NaN \/ (maxMeters # NaN /\ dist >= maxMeters)

\* !(typeof dist === 'number') || dist > MAX_METERS
TooFar(dist, maxMeters) == dist = NaN \/ NumGt(dist, maxMeters)

DayMismatchMutLegacy(r, now) == r.day # "" /\ r.day # getDayString(now)

\* the day condition: scheduleDays when non-empty, else the legacy day string
DayMismatch(r, now) ==
  IF Len(r.scheduleDays) > 0
    THEN getDay(now) \notin SeqToSet(r.scheduleDays)
    ELSE r.day # "" /\ r.day # getDayString(now)

AntiSpamMutLe(r, now) ==
  r.lastTriggeredAt # NoDate /\ (now - r.lastTriggeredAt) <= 90 * MinuteMs

\* r.lastTriggeredAt && (now - lastTriggeredAt) / 60000 < 90
InAntiSpamWindow(r, now) ==
  r.lastTriggeredAt # NoDate /\ (now - r.lastTriggeredAt) < 90 * MinuteMs

CollisionMutSixMin(userId, now) ==
  \E r \in RIds :
    /\ reminders[r].exists /\ reminders[r].user = userId
    /\ reminders[r].type \in {"Task", "Meeting"}
    /\ reminders[r].startDate # NoDate
    /\ reminders[r].startDate >= now - 6 * MinuteMs
    /\ reminders[r].startDate <= now + 6 * MinuteMs
    /\ reminders[r].isCompleted # TRUE

hasCollisionWithinFiveMin(userId, now) ==
  \E r \in RIds :
    /\ reminders[r].exists /\ reminders[r].user = userId
    /\ reminders[r].type \in {"Task", "Meeting"}
    /\ reminders[r].startDate # NoDate
    /\ reminders[r].startDate >= now - 5 * MinuteMs
    /\ reminders[r].startDate <= now + 5 * MinuteMs
    /\ reminders[r].isCompleted # TRUE

\* Reminder.find({ user, type: 'Location', isCompleted: {$ne: true}, status: {$ne: 'completed'} })
IsCandidate(r, userId) ==
  /\ reminders[r].exists /\ reminders[r].user = userId
  /\ reminders[r].type = "Location"
  /\ reminders[r].isCompleted # TRUE
  /\ reminders[r].status # "completed"

\* the ids in S in increasing order
RECURSIVE SortedIds(_)
SortedIds(S) ==
  IF S = {} THEN <<>>
  ELSE LET m == CHOOSE x \in S : \A y \in S : x <= y IN <<m>> \o SortedIds(S \ {m})

Candidates(userId) ==
  LET ids == SortedIds({r \in RIds : IsCandidate(r, userId)})
  IN [i \in 1..Len(ids) |-> [id |-> ids[i], doc |-> reminders[ids[i]]]]

NoPlace == [kind |-> "none", coords |-> FALSE, lat |-> 0, lng |-> 0,
            placeId |-> "", name |-> "", rating |-> 0]

PlaceAt(lngMicro) == [kind |-> "place", coords |-> TRUE, lat |-> 0, lng |-> lngMicro,
                      placeId |-> "p1", name |-> "Cafe", rating |-> 4]

PlaceNoCoords == [PlaceAt(0) EXCEPT !.coords = FALSE]

PlacesThrow == [NoPlace EXCEPT !.kind = "throw"]

AiUnavailable == "#unavailable"
AiThrows == "#throws"

IdleScan == [pc |-> "idle", user |-> "u1", lat |-> 0, lng |-> 0, now |-> 0, maxMeters |-> 0,
             cands |-> <<>>, idx |-> 1, place |-> NoPlace, dist |-> 0, upd |-> Absent,
             ran |-> {}, out |-> <<>>, resp |-> "none",
             startTs |-> NoDate, wake |-> NoDate, calls |-> 0]

Skip(s, reason, steps) ==
  [reminderId |-> scan[s].cands[scan[s].idx].id, skipped |-> TRUE, reason |-> reason,
   distanceMeters |-> scan[s].dist, maxMeters |-> scan[s].maxMeters,
   retryAfterMs |-> IF reason = "collision" THEN 6 * MinuteMs ELSE 0,
   body |-> "", ttsTextHash |-> "", place |-> scan[s].place, ran |-> steps]

\* the poll for a text hash: a 2-second ceiling, 250 ms between calls
PollCeilingMs == 2000
PollSleepMs == 250

\* out.push(skip); continue
Skipped(s, reason, steps) ==
  [scan[s] EXCEPT !.pc = "loop", !.idx = @ + 1, !.ran = {}, !.dist = 0, !.place = NoPlace,
                  !.out = Append(@, Skip(s, reason, steps))]

\* request received: now, MAX_METERS; the query for candidates is issued
ScanStart(s, u) ==
  /\ scan[s].pc = "idle"
  /\ scan' = [scan EXCEPT ![s] = [IdleScan EXCEPT !.pc = "find", !.user = u, !.now = clock,
                                                  !.maxMeters = MAX_METERS(envMaxMeters)]]
  /\ nScans' = nScans + 1
  /\ UNCHANGED <<users, buckets, passed, nearby, clock, envMaxMeters, reminders, notifications, req, ttsf, trigLog, lastTts, nReqs>>

\* const reminders = await Reminder.find({...}).lean()
ScanFind(s) ==
  /\ scan[s].pc = "find"
  /\ scan' = [scan EXCEPT ![s].cands = Candidates(scan[s].user), ![s].idx = 1, ![s].pc = "loop"]
  /\ UNCHANGED <<users, buckets, passed, nearby, clock, envMaxMeters, reminders, notifications, req, ttsf, trigLog, lastTts, nScans, nReqs>>

ScanFilterMutKeywordFirst(s) ==
  /\ scan[s].pc = "loop"
  /\ scan[s].idx <= Len(scan[s].cands)
  /\ LET r == scan[s].cands[scan[s].idx].doc
         now == scan[s].now
     IN scan' = [scan EXCEPT ![s] =
          IF DayMismatch(r, now) THEN Skipped(s, "day_mismatch", {"day"})
          ELSE IF r.title = "" THEN Skipped(s, "no_keyword", {"day", "keyword"})
          ELSE IF InAntiSpamWindow(r, now)
            THEN Skipped(s, "anti_spam_window", {"day", "keyword", "throttle"})
          ELSE [@ EXCEPT !.pc = "places", !.ran = {"day", "throttle", "keyword"}]]
  /\ UNCHANGED <<users, buckets, passed, nearby, clock, envMaxMeters, reminders, notifications, req, ttsf, trigLog, lastTts, nScans, nReqs>>

\* day condition, anti-spam throttle, keyword; then the places lookup is issued
ScanFilter(s) ==
  /\ scan[s].pc = "loop"
  /\ scan[s].idx <= Len(scan[s].cands)
  /\ LET r == scan[s].cands[scan[s].idx].doc
         now == scan[s].now
     IN scan' = [scan EXCEPT ![s] =
          IF DayMismatch(r, now) THEN Skipped(s, "day_mismatch", {"day"})
          ELSE IF InAntiSpamWindow(r, now) THEN Skipped(s, "anti_spam_window", {"day", "throttle"})
          ELSE IF r.title = "" THEN Skipped(s, "no_keyword", {"day", "throttle", "keyword"})
          ELSE [@ EXCEPT !.pc = "places", !.ran = {"day", "throttle", "keyword"}]]
  /\ UNCHANGED <<users, buckets, passed, nearby, clock, envMaxMeters, reminders, notifications, req, ttsf, trigLog, lastTts, nScans, nReqs>>

ScanPlacesMutStop(s, res) ==
  /\ scan[s].pc = "places"
  /\ LET ran == scan[s].ran \cup {"places"}
         dist == PlaceDistance(scan[s].lat, scan[s].lng, res)
     IN scan' = [scan EXCEPT ![s] =
          IF res.kind = "throw"
            THEN [Skipped(s, "places_error", ran) EXCEPT !.idx = Len(scan[s].cands) + 1]
          ELSE IF res.kind = "none" THEN Skipped(s, "no_places_match", ran)
          ELSE IF TooFar(dist, scan[s].maxMeters)
            THEN [Skipped(s, "too_far", ran \cup {"distance"}) EXCEPT
                    !.out[Len(scan[s].out) + 1].distanceMeters = dist,
                    !.out[Len(scan[s].out) + 1].place = res]
          ELSE [@ EXCEPT !.pc = "collision", !.place = res, !.dist = dist,
                         !.ran = ran \cup {"distance"}]]
  /\ UNCHANGED <<users, buckets, passed, nearby, clock, envMaxMeters, reminders, notifications, req, ttsf, trigLog, lastTts, nScans, nReqs>>

\* nearbyBestPlaceByKeyword returns res (a place, none, or it throws); distance gate
ScanPlaces(s, res) ==
  /\ scan[s].pc = "places"
  /\ LET ran == scan[s].ran \cup {"places"}
         dist == PlaceDistance(scan[s].lat, scan[s].lng, res)
     IN scan' = [scan EXCEPT ![s] =
          IF res.kind = "throw" THEN Skipped(s, "places_error", ran)
          ELSE IF res.kind = "none" THEN Skipped(s, "no_places_match", ran)
          ELSE IF TooFar(dist, scan[s].maxMeters)
            THEN [Skipped(s, "too_far", ran \cup {"distance"}) EXCEPT
                    !.out[Len(scan[s].out) + 1].distanceMeters = dist,
                    !.out[Len(scan[s].out) + 1].place = res]
          ELSE [@ EXCEPT !.pc = "collision", !.place = res, !.dist = dist,
                         !.ran = ran \cup {"distance"}]]
  /\ UNCHANGED <<users, buckets, passed, nearby, clock, envMaxMeters, reminders, notifications, req, ttsf, trigLog, lastTts, nScans, nReqs>>

ScanCollisionMutStamp(s) ==
  /\ scan[s].pc = "collision"
  /\ LET hit == hasCollisionWithinFiveMin(scan[s].user, scan[s].now)
         id == scan[s].cands[scan[s].idx].id
     IN /\ scan' = [scan EXCEPT ![s] =
             IF hit THEN Skipped(s, "collision", scan[s].ran \cup {"collision"})
             ELSE [@ EXCEPT !.pc = "update", !.ran = @ \cup {"collision"}]]
        /\ reminders' = IF hit /\ reminders[id].exists
                          THEN [reminders EXCEPT ![id].lastTriggeredAt = scan[s].now]
                          ELSE reminders
  /\ UNCHANGED <<users, buckets, passed, nearby, clock, envMaxMeters, notifications, req, ttsf, trigLog, lastTts, nScans, nReqs>>

\* const collision = await hasCollisionWithinFiveMin(userId, now)
ScanCollision(s) ==
  /\ scan[s].pc = "collision"
  /\ scan' = [scan EXCEPT ![s] =
       IF hasCollisionWithinFiveMin(scan[s].user, scan[s].now)
         THEN Skipped(s, "collision", scan[s].ran \cup {"collision"})
         ELSE [@ EXCEPT !.pc = "update", !.ran = @ \cup {"collision"}]]
  /\ UNCHANGED <<users, buckets, passed, nearby, clock, envMaxMeters, reminders, notifications, req, ttsf, trigLog, lastTts, nScans, nReqs>>

\* const updated = await Reminder.findByIdAndUpdate(r._id, { $set: update }, { new: true })
ScanUpdate(s) ==
  /\ scan[s].pc = "update"
  /\ LET c == scan[s].cands[scan[s].idx]
         after == [reminders[c.id] EXCEPT
                     !.lastTriggeredAt = scan[s].now,
                     !.status = IF c.doc.status = "expired" THEN "expired" ELSE "active",
                     !.triggeredLocation =
                        [lat |-> IF scan[s].place.coords THEN scan[s].place.lat ELSE NaN,
                         lng |-> IF scan[s].place.coords THEN scan[s].place.lng ELSE NaN,
                         placeId |-> scan[s].place.placeId, name |-> scan[s].place.name,
                         rating |-> scan[s].place.rating]]
     IN IF reminders[c.id].exists
          THEN /\ reminders' = [reminders EXCEPT ![c.id] = after]
               /\ scan' = [scan EXCEPT ![s].upd = after, ![s].pc = "line",
                                       ![s].ran = @ \cup {"update"}]
          ELSE /\ UNCHANGED reminders
               /\ scan' = [scan EXCEPT ![s].upd = Absent, ![s].pc = "line",
                                       ![s].ran = @ \cup {"update"}]
  /\ UNCHANGED <<users, buckets, passed, nearby, clock, envMaxMeters, notifications, req, ttsf, trigLog, lastTts, nScans, nReqs>>

\* generateNotificationLineWithGemini returns ai (a line, possibly empty), throws, or is
\* unavailable; a non-empty line is assigned and saved; then ensureReminderTTS is entered
ScanLine(s, ai) ==
  /\ scan[s].pc = "line"
  /\ LET c == scan[s].cands[scan[s].idx]
         got == scan[s].upd.exists /\ ai \notin {AiUnavailable, AiThrows, ""}
         upd == IF got THEN [scan[s].upd EXCEPT !.aiNotificationLine = ai] ELSE scan[s].upd
     IN /\ reminders' = IF got /\ reminders[c.id].exists
                          THEN [reminders EXCEPT ![c.id].aiNotificationLine = ai]
                          ELSE reminders
        /\ scan' = [scan EXCEPT ![s].upd = upd, ![s].ran = @ \cup {"line"},
                                ![s].pc = IF upd.exists THEN "tts" ELSE "notify",
                                ![s].calls = IF upd.exists THEN 1 ELSE 0]
        /\ IF upd.exists THEN TtsCall(s, c.id, upd.user) ELSE UNCHANGED ttsf
  /\ UNCHANGED <<users, buckets, passed, nearby, clock, envMaxMeters, notifications, req, trigLog, lastTts, nScans, nReqs>>

Triggered(s, hash) ==
  [reminderId |-> scan[s].cands[scan[s].idx].id, skipped |-> FALSE, reason |-> "",
   distanceMeters |-> scan[s].dist, maxMeters |-> scan[s].maxMeters, retryAfterMs |-> 0,
   body |-> scan[s].upd.aiNotificationLine, ttsTextHash |-> hash, place |-> scan[s].place,
   ran |-> scan[s].ran \cup {"tts", "notify"}]

\* ensureReminderTTS as its caller sees it here: it returns a reminder with
\* tts.textHash (ttsf[p].hash) or without one (""), or it throws
TtsOutcome(p, out) ==
  /\ ttsf[p].pc = "find"
  /\ ttsf' = [ttsf EXCEPT ![p] =
       IF out = "throws" THEN [@ EXCEPT !.pc = "thrown"]
       ELSE [@ EXCEPT !.pc = "ret", !.hash = out]]
  /\ UNCHANGED <<clock, envMaxMeters, reminders, notifications, scan, req, trigLog, lastTts,
                 nScans, nReqs, users, buckets, passed, nearby>>

\* if (!textHash) { const startTs = Date.now(); while (...) { again = await
\* ensureReminderTTS(...): the first call returned no hash, the loop is entered
ScanPollEnter(s) ==
  /\ scan[s].pc = "tts"
  /\ ttsf[s].pc = "ret" /\ ttsf[s].hash = ""
  /\ scan[s].startTs = NoDate
  /\ scan' = [scan EXCEPT ![s].startTs = clock, ![s].calls = @ + 1]
  /\ TtsCall(s, ttsf[s].rid, ttsf[s].user)
  /\ UNCHANGED <<clock, envMaxMeters, reminders, notifications, req, trigLog, lastTts,
                 nScans, nReqs, users, buckets, passed, nearby>>

\* a call of the loop returned no hash: await new Promise(r => setTimeout(r, 250))
ScanPollSleep(s) ==
  /\ scan[s].pc = "tts"
  /\ ttsf[s].pc = "ret" /\ ttsf[s].hash = ""
  /\ scan[s].startTs # NoDate
  /\ scan' = [scan EXCEPT ![s].pc = "sleep", ![s].wake = clock + PollSleepMs]
  /\ UNCHANGED <<clock, envMaxMeters, reminders, notifications, req, ttsf, trigLog, lastTts,
                 nScans, nReqs, users, buckets, passed, nearby>>

ScanPollWakeMutInclusive(s) ==
  /\ scan[s].pc = "sleep"
  /\ clock >= scan[s].wake
  /\ IF clock - scan[s].startTs <= PollCeilingMs
       THEN /\ scan' = [scan EXCEPT ![s].pc = "tts", ![s].wake = NoDate, ![s].calls = @ + 1]
            /\ TtsCall(s, ttsf[s].rid, ttsf[s].user)
       ELSE /\ scan' = [scan EXCEPT ![s].pc = "notify", ![s].wake = NoDate]
            /\ UNCHANGED ttsf
  /\ UNCHANGED <<clock, envMaxMeters, reminders, notifications, req, trigLog, lastTts,
                 nScans, nReqs, users, buckets, passed, nearby>>

\* the timer has fired: while (!textHash && Date.now() - startTs < 2000) calls again
\* or leaves the loop
ScanPollWake(s) ==
  /\ scan[s].pc = "sleep"
  /\ clock >= scan[s].wake
  /\ IF clock - scan[s].startTs < PollCeilingMs
       THEN /\ scan' = [scan EXCEPT ![s].pc = "tts", ![s].wake = NoDate, ![s].calls = @ + 1]
            /\ TtsCall(s, ttsf[s].rid, ttsf[s].user)
       ELSE /\ scan' = [scan EXCEPT ![s].pc = "notify", ![s].wake = NoDate]
            /\ UNCHANGED ttsf
  /\ UNCHANGED <<clock, envMaxMeters, reminders, notifications, req, trigLog, lastTts,
                 nScans, nReqs, users, buckets, passed, nearby>>

\* ensureReminderTTS has returned a hash or thrown, or the poll loop was left;
\* Notification.create succeeds (ok) or fails; the triggered outcome is pushed, which
\* throws into the handler's catch when updated is null
ScanNotify(s, ok) ==
  /\ \/ scan[s].pc = "notify"
     \/ scan[s].pc = "tts" /\ ttsf[s].pc = "thrown"
     \/ scan[s].pc = "tts" /\ ttsf[s].pc = "ret" /\ ttsf[s].hash # ""
  /\ LET c == scan[s].cands[scan[s].idx]
         upd == scan[s].upd
         hash == IF scan[s].pc = "tts" /\ ttsf[s].pc = "ret" THEN ttsf[s].hash ELSE ""
         message == IF upd.aiNotificationLine # "" THEN upd.aiNotificationLine
                    ELSE "You're near a place for " \o upd.title \o "."
     IN /\ notifications' =
             IF ok /\ upd.exists
               THEN Append(notifications,
                      [userId |-> scan[s].user, type |-> "location", message |-> message,
                       isRead |-> FALSE, reminderId |-> c.id])
               ELSE notifications
        /\ IF upd.exists
             THEN /\ scan' = [scan EXCEPT ![s] =
                       [@ EXCEPT !.pc = "loop", !.idx = @ + 1, !.ran = {}, !.dist = 0,
                                 !.place = NoPlace, !.upd = Absent,
                                 !.startTs = NoDate, !.calls = 0,
                                 !.out = Append(@, Triggered(s, hash))]]
                  /\ trigLog' = [trigLog EXCEPT ![c.id] = Append(@, scan[s].now)]
             ELSE /\ scan' = [scan EXCEPT ![s].pc = "done", ![s].resp = "500"]
                  /\ UNCHANGED trigLog
        /\ ttsf' = [ttsf EXCEPT ![s] = NoFrame]
  /\ UNCHANGED <<users, buckets, passed, nearby, clock, envMaxMeters, reminders, req, lastTts, nScans, nReqs>>

\* res.json({ success: true, results: out })
ScanRespond(s) ==
  /\ scan[s].pc = "loop"
  /\ scan[s].idx > Len(scan[s].cands)
  /\ scan' = [scan EXCEPT ![s].pc = "done", ![s].resp = "200"]
  /\ UNCHANGED <<users, buckets, passed, nearby, clock, envMaxMeters, reminders, notifications, req, ttsf, trigLog, lastTts, nScans, nReqs>>

-----------------------------------------------------------------------------
(* controllers/calendarController.js (reminder handlers) *)

\* deleteReminder: Reminder.findOneAndDelete({ _id: id, user: userId })
DeleteReminder(r, u) ==
  /\ reminders[r].exists
  /\ reminders[r].user = u
  /\ reminders' = [reminders EXCEPT ![r] = Absent]
  /\ lastTts' = [lastTts EXCEPT ![r] = NoLast]
  /\ UNCHANGED <<users, buckets, passed, nearby, clock, envMaxMeters, notifications, scan, req, ttsf, trigLog, nScans, nReqs>>

\* Helper: sanitize update payload to only allow known fields
AllowedFields == {"type", "title", "description", "icon", "startDate", "locationName", "day",
                  "status", "lastTriggeredAt", "triggeredLocation", "isCompleted",
                  "isManualSchedule", "scheduleType", "scheduleTime", "scheduleDays",
                  "notificationPreferenceMinutes"}

pickReminderFields(src) == [k \in (DOMAIN src) \cap AllowedFields |-> src[k]]

\* findOneAndUpdate's { $set: updates } on a document
SetFields(doc, updates) ==
  [f \in DOMAIN doc |-> IF f \in DOMAIN updates THEN updates[f] ELSE doc[f]]

BadDate == -2           \* new Date(s) for an unparseable s (Invalid Date)

NoSchedule == [valid |-> FALSE, startDateISO |-> NoDate, scheduleType |-> "",
               scheduleDays |-> <<>>, scheduleTime |-> NoScheduleTime]

\* the parsed answer of the schedule capability before normalisation
NoObj == [startDateISO |-> NoDate, scheduleType |-> "", scheduleDays |-> <<>>,
          scheduleTime |-> NoScheduleTime]

NoAnswer == [kind |-> "", obj |-> NoObj]

\* the body of a response not sent yet: data, and aiMeta (absent, meta or error)
NoSent == [data |-> Absent, aiMeta |-> "absent", scheduleSource |-> "", lineSource |-> ""]

IdleReq == [pc |-> "idle", kind |-> "", rid |-> 1, user |-> "u1", sync |-> FALSE,
            resp |-> "none", sent |-> NoSent, data |-> Absent, rem |-> Absent, orig |-> Absent, now |-> NoDate,
            scheduleSource |-> "", lineSource |-> "",
            calledAI |-> FALSE, calledFallback |-> FALSE, ans |-> NoAnswer, aiNow |-> NoDate,
            threw |-> FALSE]

\* updateReminder: findOneAndUpdate; then ensureReminderTTS when there is a startDate;
\* without USE_SYNC_AI the response is sent and the enrichment pass is queued
ReqUpdate(q, rid, u, body, sync) ==
  /\ req[q].pc \in {"idle", "done"}
  /\ ttsf[q].pc = "none"
  /\ nReqs' = nReqs + 1
  /\ LET updates == pickReminderFields(body)
         found == reminders[rid].exists /\ reminders[rid].user = u
         updated == SetFields(reminders[rid], updates)
         r0 == [IdleReq EXCEPT !.kind = "update", !.rid = rid, !.user = u, !.sync = sync]
     IN IF ~found
          THEN /\ req' = [req EXCEPT ![q] = [r0 EXCEPT !.pc = "done", !.resp = "404"]]
               /\ UNCHANGED <<reminders, ttsf>>
          ELSE /\ reminders' = [reminders EXCEPT ![rid] = updated]
               /\ IF updated.startDate # NoDate
                    THEN /\ TtsCall(q, rid, updated.user)
                         /\ req' = [req EXCEPT ![q] = [r0 EXCEPT !.pc = "utts", !.data = updated]]
                    ELSE /\ UNCHANGED ttsf
                         /\ req' = [req EXCEPT ![q] =
                              [r0 EXCEPT !.pc = "efind", !.data = updated,
                                         !.resp = IF sync THEN "none" ELSE "200",
                                         !.sent = IF sync THEN NoSent
                                                  ELSE [NoSent EXCEPT !.data = updated]]]
  /\ UNCHANGED <<users, buckets, passed, nearby, clock, envMaxMeters, notifications, scan, trigLog, lastTts, nScans>>

\* ensureReminderTTS has returned or thrown (caught); respond or run the pass
ReqAfterTts(q) ==
  /\ req[q].pc = "utts"
  /\ ttsf[q].pc \in {"ret", "thrown"}
  /\ ttsf' = [ttsf EXCEPT ![q] = NoFrame]
  /\ req' = [req EXCEPT ![q].pc = "efind",
                        ![q].resp = IF req[q].sync THEN "none"
                                    ELSE IF req[q].kind = "create" THEN "201" ELSE "200",
                        ![q].sent = IF req[q].sync THEN NoSent
                                    ELSE [NoSent EXCEPT !.data = req[q].data]]
  /\ UNCHANGED <<users, buckets, passed, nearby, clock, envMaxMeters, reminders, notifications, scan, trigLog, lastTts,
                 nScans, nReqs>>

\* a field of a request body, or dflt when the body does not have it
Field(body, f, dflt) == IF f \in DOMAIN body THEN body[f] ELSE dflt

\* createReminder's payload, with the Meeting flow enforced, as the schema stores it
CreatePayload(u, body) ==
  LET type == Field(body, "type", "")
      pref0 == Field(body, "notificationPreferenceMinutes", -1)
      st == Field(body, "scheduleTime", NoScheduleTime)
      pref == IF pref0 # -1 THEN pref0
              ELSE IF st.minutesBeforeStart # -1 THEN st.minutesBeforeStart ELSE 10
      base == [NewReminder(u, type, Field(body, "title", "")) EXCEPT
                 !.startDate = Field(body, "startDate", NoDate),
                 !.locationName = Field(body, "locationName", ""),
                 !.day = Field(body, "day", ""),
                 !.status = Field(body, "status", "active"),
                 !.isManualSchedule = Field(body, "isManualSchedule", FALSE),
                 !.scheduleType = Field(body, "scheduleType", ""),
                 !.scheduleTime = st,
                 !.scheduleDays = Field(body, "scheduleDays", <<>>),
                 !.notificationPreferenceMinutes = IF pref0 # -1 THEN pref0 ELSE 10]
  IN IF type = "Meeting"
       THEN [base EXCEPT !.isManualSchedule = TRUE, !.scheduleType = "one-day",
                         !.scheduleTime = [minutesBeforeStart |-> pref, fixedTime |-> ""],
                         !.scheduleDays = <<>>, !.notificationPreferenceMinutes = pref]
       ELSE base

\* the schema's validators, which Reminder.create runs
CreateValid(doc) ==
  /\ doc.type \in {"Task", "Meeting", "Location"}
  /\ doc.title # ""
  /\ doc.startDate # BadDate
  /\ doc.day \in SeqToSet(DayNames) \cup {""}
  /\ doc.status \in {"active", "expired", "completed"}
  /\ doc.scheduleType \in {"", "one-day", "routine"}
  /\ doc.scheduleTime.minutesBeforeStart = -1 \/ doc.scheduleTime.minutesBeforeStart >= 0
  /\ doc.notificationPreferenceMinutes >= 0

\* createReminder up to Reminder.create(payload); rid is the _id of the new document
ReqCreate(q, rid, u, body, sync) ==
  /\ req[q].pc \in {"idle", "done"}
  /\ ttsf[q].pc = "none"
  /\ ~reminders[rid].exists
  /\ nReqs' = nReqs + 1
  /\ LET payload == CreatePayload(u, body)
         r0 == [IdleReq EXCEPT !.kind = "create", !.rid = rid, !.user = u, !.sync = sync]
     IN IF payload.type = "Meeting" /\ payload.startDate = NoDate
          THEN /\ req' = [req EXCEPT ![q] = [r0 EXCEPT !.pc = "done", !.resp = "400"]]
               /\ UNCHANGED reminders
          ELSE IF ~CreateValid(payload)
            THEN /\ req' = [req EXCEPT ![q] = [r0 EXCEPT !.pc = "done", !.resp = "500"]]
                 /\ UNCHANGED reminders
            ELSE /\ reminders' = [reminders EXCEPT ![rid] = payload]
                 /\ req' = [req EXCEPT ![q] = [r0 EXCEPT !.pc = "cfind"]]
  /\ UNCHANGED <<users, buckets, passed, nearby, clock, envMaxMeters, notifications, scan, ttsf, trigLog, lastTts, nScans>>

\* populatedReminder = await Reminder.findById(created._id).populate(...); the line
\* branch needs ai.generateNotificationLineWithGemini, which aiScheduler does not
\* export, so it is skipped; then ensureReminderTTS when there is a startDate, else
\* the response and the queued enrichment pass
ReqCreateFind(q) ==
  /\ req[q].pc = "cfind"
  /\ LET populatedReminder == reminders[req[q].rid]
         answered == IF req[q].sync THEN "none" ELSE "201"
     IN IF ~populatedReminder.exists
          THEN /\ req' = [req EXCEPT ![q].pc = "done", ![q].resp = "201"]
               /\ UNCHANGED ttsf
          ELSE IF populatedReminder.startDate # NoDate
            THEN /\ TtsCall(q, req[q].rid, req[q].user)
                 /\ req' = [req EXCEPT ![q].pc = "utts", ![q].data = populatedReminder]
            ELSE /\ UNCHANGED ttsf
                 /\ req' = [req EXCEPT ![q].pc = "efind", ![q].data = populatedReminder,
                                       ![q].resp = answered,
                                       ![q].sent = IF req[q].sync THEN NoSent
                                                   ELSE [NoSent EXCEPT !.data = populatedReminder]]
  /\ UNCHANGED <<users, buckets, passed, nearby, clock, envMaxMeters, reminders, notifications, scan, trigLog, lastTts,
                 nScans, nReqs>>

\* ensureReminderTTSNow: Reminder.findOne({ _id, user }); then ensureReminderTTS
ReqEnsureNow(q, rid, u) ==
  /\ req[q].pc \in {"idle", "done"}
  /\ ttsf[q].pc = "none"
  /\ nReqs' = nReqs + 1
  /\ LET found == reminders[rid].exists /\ reminders[rid].user = u
         r0 == [IdleReq EXCEPT !.kind = "ensureNow", !.rid = rid, !.user = u]
     IN IF found
          THEN /\ TtsCall(q, rid, u)
               /\ req' = [req EXCEPT ![q] = [r0 EXCEPT !.pc = "ntts"]]
          ELSE /\ UNCHANGED ttsf
               /\ req' = [req EXCEPT ![q] = [r0 EXCEPT !.pc = "done", !.resp = "404"]]
  /\ UNCHANGED <<users, buckets, passed, nearby, clock, envMaxMeters, reminders, notifications, scan, trigLog, lastTts, nScans>>

\* res.json({ success: true, tts }) or the handler's catch
ReqEnsureNowDone(q) ==
  /\ req[q].pc = "ntts"
  /\ ttsf[q].pc \in {"ret", "thrown"}
  /\ ttsf' = [ttsf EXCEPT ![q] = NoFrame]
  /\ req' = [req EXCEPT ![q].pc = "done",
                        ![q].resp = IF ttsf[q].pc = "ret" THEN "200" ELSE "500"]
  /\ UNCHANGED <<users, buckets, passed, nearby, clock, envMaxMeters, reminders, notifications, scan, trigLog, lastTts,
                 nScans, nReqs>>

-----------------------------------------------------------------------------
(* services/geminiService.js and services/aiScheduler.js *)

SevenDaysMs == 7 * DayMs

GeminiMutNoPastCheck(obj, now) ==
  LET ty == IF obj.scheduleType = "routine" THEN "routine" ELSE "one-day"
      days == SelectSeq(obj.scheduleDays, LAMBDA n : n >= 0 /\ n <= 6)
      sch == [valid |-> TRUE, startDateISO |-> obj.startDateISO, scheduleType |-> ty,
              scheduleDays |-> days, scheduleTime |-> obj.scheduleTime]
  IN IF ty = "one-day"
       THEN IF obj.startDateISO = NoDate \/ obj.startDateISO = BadDate
              THEN NoSchedule ELSE sch
       ELSE IF obj.scheduleTime.fixedTime = "" THEN NoSchedule ELSE sch

\* suggestFullScheduleWithGemini, from the parsed answer obj on: normalisation and the
\* "basic validity checks"; NoSchedule stands for the null it returns
GeminiSchedule(obj, now) ==
  LET ty == IF obj.scheduleType = "routine" THEN "routine" ELSE "one-day"
      days == SelectSeq(obj.scheduleDays, LAMBDA n : n >= 0 /\ n <= 6)
      sch == [valid |-> TRUE, startDateISO |-> obj.startDateISO, scheduleType |-> ty,
              scheduleDays |-> days, scheduleTime |-> obj.scheduleTime]
  IN IF ty = "one-day"
       THEN IF obj.startDateISO = NoDate \/ obj.startDateISO = BadDate \/ obj.startDateISO <= now
              THEN NoSchedule ELSE sch
       ELSE IF obj.scheduleTime.fixedTime = "" THEN NoSchedule ELSE sch

\* Date.prototype.getHours on the local clock
getHours(t) == (t % DayMs) \div HourMs

BusyDatesMutAnyUser(userId, now) ==
  {reminders[r].startDate : r \in {x \in RIds :
      /\ reminders[x].exists
      /\ reminders[x].startDate # NoDate
      /\ reminders[x].startDate >= now
      /\ reminders[x].startDate <= now + SevenDaysMs}}

\* the startDates findSmartSlot's query returns: of the user, within [now, horizon]
BusyDates(userId, now) ==
  {reminders[r].startDate : r \in {x \in RIds :
      /\ reminders[x].exists /\ reminders[x].user = userId
      /\ reminders[x].startDate # NoDate
      /\ reminders[x].startDate >= now
      /\ reminders[x].startDate <= now + SevenDaysMs}}

findSmartSlotMutNoBusy(userId, now) ==
  LET free == {d \in {now + k * HourMs : k \in 1..168} :
                 getHours(d) >= 9 /\ getHours(d) < 18}
  IN IF free = {} THEN NoDate ELSE CHOOSE d \in free : \A e \in free : d <= e

\* Heuristic fallback: the first free hourly slot from now + 1h to now + 7d whose hour
\* is in [9, 18); NoDate stands for null
findSmartSlot(userId, now) ==
  LET free == {d \in {now + k * HourMs : k \in 1..168} :
                 /\ getHours(d) >= 9 /\ getHours(d) < 18
                 /\ d \notin BusyDates(userId, now)}
  IN IF free = {} THEN NoDate ELSE CHOOSE d \in free : \A e \in free : d <= e

ApplicableMutOnce(rem) ==
  ~rem.isManualSchedule /\ rem.type = "Task" /\ rem.startDate = NoDate /\ rem.aiNotificationLine = ""

ApplicableMutNoType(rem) == ~rem.isManualSchedule /\ rem.startDate = NoDate

\* !rem.isManualSchedule && rem.type === 'Task' && !rem.startDate
ScheduleApplicable(rem) ==
  ~rem.isManualSchedule /\ rem.type = "Task" /\ rem.startDate = NoDate

\* if (schedule) { rem.startDate = ...; rem.aiSuggested = true }
ApplySchedule(rem, schedule) ==
  [rem EXCEPT
     !.startDate = IF schedule.startDateISO # NoDate THEN schedule.startDateISO ELSE @,
     !.scheduleType = schedule.scheduleType,
     !.scheduleDays = schedule.scheduleDays,
     !.scheduleTime = schedule.scheduleTime,
     !.notificationPreferenceMinutes =
        IF schedule.scheduleType = "one-day"
          THEN IF schedule.scheduleTime.minutesBeforeStart # -1
                 THEN schedule.scheduleTime.minutesBeforeStart ELSE 10
          ELSE @,
     !.aiSuggested = TRUE]

\* the schema's casts and validators, which rem.save() runs on the modified paths
SaveValid(rem, orig) ==
  /\ rem.startDate # orig.startDate => rem.startDate # BadDate
  /\ rem.scheduleTime # orig.scheduleTime =>
        (rem.scheduleTime.minutesBeforeStart = -1 \/ rem.scheduleTime.minutesBeforeStart >= 0)
  /\ rem.notificationPreferenceMinutes # orig.notificationPreferenceMinutes =>
        rem.notificationPreferenceMinutes >= 0

\* save() writes the paths whose value differs from what was read
SaveModified(stored, rem, orig) ==
  [f \in DOMAIN stored |-> IF rem[f] # orig[f] THEN rem[f] ELSE stored[f]]

PassEndMutNoMeta(q, r) ==
  [r EXCEPT !.pc = "done",
            !.resp = IF r.sync /\ r.kind = "update" THEN "200"
                     ELSE IF r.sync /\ r.kind = "create" THEN "201" ELSE @,
            !.sent = IF r.sync /\ r.kind \in {"update", "create"}
                       THEN [NoSent EXCEPT !.data = r.data]
                       ELSE @]

\* the pass ends (returns, or rejects into the caller's catch);
\* with USE_SYNC_AI the handler answers now: { data: afterAI || updated, aiMeta: meta }
\* when the pass returned, { data: updated, aiMeta: { error } } when it threw
PassEnd(q, r) ==
  [r EXCEPT !.pc = "done",
            !.resp = IF r.sync /\ r.kind = "update" THEN "200"
                     ELSE IF r.sync /\ r.kind = "create" THEN "201" ELSE @,
            !.sent = IF r.sync /\ r.kind \in {"update", "create"}
                       THEN IF r.orig.exists /\ ~r.threw
                              THEN [data |-> r.rem, aiMeta |-> "meta",
                                    scheduleSource |-> r.scheduleSource,
                                    lineSource |-> r.lineSource]
                              ELSE [NoSent EXCEPT !.data = r.data, !.aiMeta = "error"]
                       ELSE @]

\* const rem = await Reminder.findById(reminderId).populate(...); if (!rem) return null
EnrFind(q) ==
  /\ req[q].pc = "efind"
  /\ LET rem == reminders[req[q].rid]
     IN req' = [req EXCEPT ![q] =
          IF ~rem.exists THEN PassEnd(q, @)
          ELSE [@ EXCEPT !.rem = rem, !.orig = rem, !.aiNow = clock,
                         !.pc = IF ScheduleApplicable(rem) THEN "esched" ELSE "eline"]]
  /\ UNCHANGED <<users, buckets, passed, nearby, clock, envMaxMeters, reminders, notifications, scan, ttsf, trigLog, lastTts,
                 nScans, nReqs>>

\* 1) Try Gemini full schedule: the capability is unavailable, throws, or answers obj,
\* which is validated against the now of the call
EnrSchedule(q, ai) ==
  /\ req[q].pc = "esched"
  /\ LET schedule == IF ai.kind = "answer" THEN GeminiSchedule(ai.obj, req[q].aiNow)
                     ELSE NoSchedule
     IN req' = [req EXCEPT ![q] =
          IF schedule.valid
            THEN [@ EXCEPT !.rem = ApplySchedule(@, schedule), !.scheduleSource = "gemini",
                           !.calledAI = TRUE, !.ans = ai, !.now = clock, !.pc = "eline"]
            ELSE [@ EXCEPT !.calledAI = (ai.kind # "unavailable"), !.ans = ai, !.now = clock,
                           !.pc = "efallback"]]
  /\ UNCHANGED <<users, buckets, passed, nearby, clock, envMaxMeters, reminders, notifications, scan, ttsf, trigLog, lastTts,
                 nScans, nReqs>>

EnrFallbackMutUnlabelled(q, ok) ==
  /\ req[q].pc = "efallback"
  /\ LET suggested == IF ok THEN findSmartSlot(req[q].rem.user, req[q].now) ELSE NoDate
         schedule == [valid |-> TRUE, startDateISO |-> suggested, scheduleType |-> "one-day",
                      scheduleDays |-> <<>>,
                      scheduleTime |-> [minutesBeforeStart |-> 10, fixedTime |-> ""]]
     IN req' = [req EXCEPT ![q] =
          IF suggested # NoDate
            THEN [@ EXCEPT !.rem = ApplySchedule(@, schedule),
                           !.calledFallback = TRUE, !.pc = "eline"]
            ELSE [@ EXCEPT !.calledFallback = TRUE, !.pc = "eline"]]
  /\ UNCHANGED <<users, buckets, passed, nearby, clock, envMaxMeters, reminders, notifications, scan, ttsf, trigLog, lastTts,
                 nScans, nReqs>>

\* 2) Fallback heuristic: findSmartSlot({ userId, now: new Date() }).catch(() => null);
\* ok is FALSE when its query rejects
EnrFallback(q, ok) ==
  /\ req[q].pc = "efallback"
  /\ LET suggested == IF ok THEN findSmartSlot(req[q].rem.user, req[q].now) ELSE NoDate
         schedule == [valid |-> TRUE, startDateISO |-> suggested, scheduleType |-> "one-day",
                      scheduleDays |-> <<>>,
                      scheduleTime |-> [minutesBeforeStart |-> 10, fixedTime |-> ""]]
     IN req' = [req EXCEPT ![q] =
          IF suggested # NoDate
            THEN [@ EXCEPT !.rem = ApplySchedule(@, schedule), !.scheduleSource = "fallback",
                           !.calledFallback = TRUE, !.pc = "eline"]
            ELSE [@ EXCEPT !.calledFallback = TRUE, !.pc = "eline"]]
  /\ UNCHANGED <<users, buckets, passed, nearby, clock, envMaxMeters, reminders, notifications, scan, ttsf, trigLog, lastTts,
                 nScans, nReqs>>

\* notification line from Gemini (ai) or the local builder; await rem.save(); then
\* ensureReminderTTS when the reminder has a startDate
EnrLine(q, ai) ==
  /\ req[q].pc = "eline"
  /\ LET r == req[q]
         got == ai \notin {AiUnavailable, AiThrows, ""}
         rem1 == IF got THEN [r.rem EXCEPT !.aiNotificationLine = ai] ELSE r.rem
         rem2 == IF rem1.aiNotificationLine = ""
                   THEN [rem1 EXCEPT !.aiNotificationLine = buildNotificationText(rem1, r.rem.user)]
                   ELSE rem1
         src == IF got THEN "gemini" ELSE IF rem1.aiNotificationLine = "" THEN "fallback" ELSE ""
         saved == reminders[r.rid].exists /\ SaveValid(rem2, r.orig)
     IN /\ reminders' = IF saved
                          THEN [reminders EXCEPT ![r.rid] = SaveModified(@, rem2, r.orig)]
                          ELSE reminders
        /\ IF saved /\ rem2.startDate # NoDate
             THEN /\ TtsCall(q, r.rid, rem2.user)
                  /\ req' = [req EXCEPT ![q] = [r EXCEPT !.rem = rem2, !.lineSource = src,
                                                        !.pc = "etts"]]
             ELSE /\ UNCHANGED ttsf
                  /\ req' = [req EXCEPT ![q] = PassEnd(q, [r EXCEPT !.rem = rem2,
                                                                  !.lineSource = src,
                                                                  !.threw = ~saved])]
  /\ UNCHANGED <<users, buckets, passed, nearby, clock, envMaxMeters, notifications, scan, trigLog, lastTts, nScans, nReqs>>

\* try { await ensureReminderTTS(...) } catch {}; return { reminder, meta }
EnrDone(q) ==
  /\ req[q].pc = "etts"
  /\ ttsf[q].pc \in {"ret", "thrown"}
  /\ ttsf' = [ttsf EXCEPT ![q] = NoFrame]
  /\ req' = [req EXCEPT ![q] = PassEnd(q, @)]
  /\ UNCHANGED <<users, buckets, passed, nearby, clock, envMaxMeters, reminders, notifications, scan, trigLog, lastTts,
                 nScans, nReqs>>

\* time passes
Tick(d) ==
  /\ clock' = clock + d
  /\ UNCHANGED <<users, buckets, passed, nearby,
                 envMaxMeters, reminders, notifications, scan, req, ttsf, trigLog, lastTts,
                 nScans, nReqs>>

-----------------------------------------------------------------------------
(* The location trigger engine, one scan request over a varied store *)

TuesdayNoon == 9 * DayMs + 12 * HourMs
MondayNoon == 8 * DayMs + 12 * HourMs

EnvValues == { <<>>, <<"7", "5">>, <<"5">>, <<"a", "b", "c">>, <<"1", "2", ".", "7">> }

GatePlaces == { PlacesThrow, NoPlace, PlaceNoCoords,
                PlaceAt(90), PlaceAt(99), PlaceAt(539), PlaceAt(540), PlaceAt(549),
                PlaceAt(675), PlaceAt(684), PlaceAt(1000) }

GateLines == { AiThrows, "", "Cafe nearby, Ada!" }

BaseR1 == NewReminder("u1", "Location", "cafe")
BaseR2 == [NewReminder("u1", "Location", "") EXCEPT !.day = "Tuesday"]
BaseR3 == NewReminder("u1", "Task", "report")

GateStore(r1, r3) == [r \in RIds |-> IF r = 1 THEN r1 ELSE IF r = 2 THEN BaseR2 ELSE r3]

\* day / throttle / keyword cases of the first candidate
GateInitFilters ==
  /\ clock \in {TuesdayNoon, MondayNoon}
  /\ envMaxMeters = <<>>
  /\ \E days \in {<<>>, <<1, 3, 5>>}, title \in {"cafe", ""},
        last \in {NoDate, clock - 90 * MinuteMs, clock - 90 * MinuteMs + 1, clock - 1} :
       reminders = GateStore([BaseR1 EXCEPT !.scheduleDays = days, !.title = title,
                                            !.lastTriggeredAt = last], BaseR3)

\* configured maximum distance
GateInitDistance ==
  /\ clock = TuesdayNoon
  /\ envMaxMeters \in EnvValues
  /\ reminders = GateStore(BaseR1, BaseR3)

\* Task / Meeting reminders around the scan time
GateInitCollision ==
  /\ clock = TuesdayNoon
  /\ envMaxMeters = <<>>
  /\ \E ty \in {"Task", "Meeting"}, done \in BOOLEAN, owner \in Users,
        off \in {0 - 301000, 0 - 300000, 299000, 300000, 301000} :
       reminders = GateStore(BaseR1, [BaseR3 EXCEPT !.type = ty, !.isCompleted = done,
                                                    !.user = owner, !.startDate = clock + off])

GateInit ==
  /\ GateInitFilters \/ GateInitDistance \/ GateInitCollision
  /\ notifications = <<>>
  /\ scan = [s \in ScanIds |-> IdleScan]
  /\ req = [q \in ReqIds |-> IdleReq]
  /\ ttsf = [p \in Pids |-> NoFrame]
  /\ trigLog = [r \in RIds |-> <<>>]
  /\ lastTts = [r \in RIds |-> NoLast]
  /\ nScans = 0
  /\ nReqs = 0
  /\ users = <<>>
  /\ buckets = <<>>
  /\ passed = <<>>
  /\ nearby = <<>>

GateNext ==
  \/ ScanStart("s1", "u1")
  \/ ScanFind("s1")
  \/ ScanFilter("s1")
  \/ \E res \in GatePlaces : ScanPlaces("s1", res)
  \/ ScanCollision("s1")
  \/ ScanUpdate("s1")
  \/ \E ai \in GateLines : ScanLine("s1", ai)
  \/ \E ok \in BOOLEAN : ScanNotify("s1", ok)
  \/ ScanRespond("s1")
  \/ TtsFind("s1")
  \/ TtsSavePending("s1")
  \/ \E ok \in BOOLEAN : TtsSynth("s1", ok)
  \/ \E r \in {1, 2} : DeleteReminder(r, "u1")

SpecGate == GateInit /\ [][GateNext]_vars

-----------------------------------------------------------------------------
(* Properties of the location trigger engine *)

\* the outcomes of scan s so far, each with the candidate it is about
Outcomes(s) ==
  {[r |-> scan[s].cands[i].doc, o |-> scan[s].out[i], now |-> scan[s].now,
    max |-> scan[s].maxMeters] : i \in 1..Len(scan[s].out)}

AllOutcomes == UNION {Outcomes(s) : s \in ScanIds}

\* C2: a candidate that passed the day filter and was last triggered less than 90
\* minutes before the scan time is skipped with anti_spam_window; one last triggered
\* 90 minutes or more before it, or never, is not, and reaches the keyword step.
C2_ThrottleFilter ==
  \A x \in AllOutcomes :
    x.o.reason # "day_mismatch" =>
      IF x.r.lastTriggeredAt # NoDate /\ x.now - x.r.lastTriggeredAt < 5400000
        THEN x.o.skipped /\ x.o.reason = "anti_spam_window"
        ELSE x.o.reason # "anti_spam_window" /\ "keyword" \in x.o.ran

\* a candidate last triggered exactly 90 minutes before the scan got past the throttle
C2_Witness ==
  \E x \in AllOutcomes :
    /\ x.r.lastTriggeredAt # NoDate
    /\ x.now - x.r.lastTriggeredAt = 5400000
    /\ "places" \in x.o.ran

\* C3: a finished scan answered with success and one outcome per candidate, in
\* candidate order, whatever failed while a candidate was processed.
C3_NoGlobalAbort ==
  \A s \in ScanIds :
    scan[s].pc = "done" =>
      /\ scan[s].resp = "200"
      /\ Len(scan[s].out) = Len(scan[s].cands)
      /\ \A i \in 1..Len(scan[s].out) : scan[s].out[i].reminderId = scan[s].cands[i].id

\* the distance of a resolved place from the caller, in whole metres
MetresAway(place) ==
  LET microdeg == IF place.lng < 0 THEN 0 - place.lng ELSE place.lng
  IN (microdeg * 111195 + 500000) \div 1000000

\* C4: with a numeric configured maximum, a resolved place at exactly the maximum
\* distance (in metres) or nearer passes the distance gate, one a metre or more
\* beyond it is skipped with too_far, and so is a place without numeric coordinates.
C4_DistanceGate ==
  \A x \in AllOutcomes :
    (x.o.place.kind = "place" /\ x.max # NaN) =>
      /\ ~x.o.place.coords => x.o.reason = "too_far"
      /\ (x.o.place.coords /\ MetresAway(x.o.place) <= x.max) => x.o.reason # "too_far"
      /\ (x.o.place.coords /\ MetresAway(x.o.place) >= x.max + 1) => x.o.reason = "too_far"

\* a place at exactly the maximum passed the gate
C4_Witness ==
  \E x \in AllOutcomes :
    /\ x.o.place.kind = "place" /\ x.o.place.coords
    /\ x.max = 60 /\ MetresAway(x.o.place) = 60
    /\ "collision" \in x.o.ran

\* C5: whatever LOCATION_MAX_TRIGGER_METERS holds, the effective maximum is a number
\* >= 10, is 60 when the variable is unset, and every place farther away is too_far.
C5_EffectiveMaximum ==
  /\ \A s \in ScanIds :
       scan[s].pc # "idle" =>
         /\ scan[s].maxMeters # NaN
         /\ scan[s].maxMeters >= 10
         /\ envMaxMeters = <<>> => scan[s].maxMeters = 60
  /\ \A x \in AllOutcomes :
       (x.o.place.kind = "place" /\ x.o.place.coords /\ MetresAway(x.o.place) > 10
          /\ (x.max = NaN \/ MetresAway(x.o.place) > x.max))
         => x.o.reason = "too_far"

\* C6: the collision step skips the candidate with collision and a retry delay of 6
\* minutes exactly when the caller has a Task or Meeting, not completed, whose
\* startDate is within 5 minutes of the scan time, either side, bounds included.
C6_CollisionGate ==
  [][\A s \in ScanIds :
       (scan[s].pc = "collision" /\ scan'[s].pc # "collision") =>
         LET colliding ==
               \E r \in RIds :
                 /\ reminders[r].exists /\ reminders[r].user = scan[s].user
                 /\ reminders[r].type # "Location" /\ ~reminders[r].isCompleted
                 /\ reminders[r].startDate # NoDate
                 /\ reminders[r].startDate - scan[s].now \in (0 - 300000)..300000
             n == Len(scan[s].out)
             skippedNow ==
               /\ Len(scan'[s].out) = n + 1
               /\ scan'[s].out[n + 1].reason = "collision"
               /\ scan'[s].out[n + 1].skipped
               /\ scan'[s].out[n + 1].retryAfterMs = 360000
         IN /\ colliding <=> skippedNow
            /\ ~colliding => (scan'[s].pc = "update" /\ scan'[s].out = scan[s].out)]_vars

\* a Task starting 4 min 59 s after the scan time made the candidate collide
C6_Witness ==
  \E x \in AllOutcomes :
    /\ x.o.reason = "collision"
    /\ reminders[3].startDate = x.now + 299000
    /\ ~reminders[3].isCompleted

\* C7: a candidate with non-empty scheduleDays is skipped with day_mismatch exactly
\* when today's weekday index is not among them, and then no later step ran for it.
C7_DayFilter ==
  \A x \in AllOutcomes :
    Len(x.r.scheduleDays) > 0 =>
      /\ x.o.reason = "day_mismatch" <=>
           ~(\E i \in 1..Len(x.r.scheduleDays) : x.r.scheduleDays[i] = (x.now \div 86400000) % 7)
      /\ x.o.reason = "day_mismatch" =>
           /\ x.o.skipped /\ x.o.ran = {"day"}
           /\ reminders[x.o.reminderId] \in {x.r, Absent}

\* scheduleDays = [1,3,5] scanned on a Tuesday gave day_mismatch
C7_Witness ==
  \E x \in AllOutcomes :
    /\ x.r.scheduleDays = <<1, 3, 5>>
    /\ (x.now \div 86400000) % 7 = 2
    /\ x.o.reason = "day_mismatch"

-----------------------------------------------------------------------------
(* Updates, the enrichment pass and the speech stage on one reminder *)

MaxReqs == 2

WednesdayTen == 10 * DayMs + 10 * HourMs

\* answers of the schedule capability: unavailable, throws, a one-day answer in the
\* future, one in the past, and a routine answer
EnrAnswers ==
  { [kind |-> "unavailable", obj |-> NoObj],
    [kind |-> "throws", obj |-> NoObj],
    [kind |-> "answer", obj |-> [NoObj EXCEPT !.startDateISO = WednesdayTen,
                                              !.scheduleType = "one-day"]],
    [kind |-> "answer", obj |-> [NoObj EXCEPT !.startDateISO = MondayNoon,
                                              !.scheduleType = "one-day"]],
    [kind |-> "answer", obj |-> [NoObj EXCEPT !.scheduleType = "routine",
                                              !.scheduleDays = <<1, 3, 9>>,
                                              !.scheduleTime.fixedTime = "08:30"]] }

EnrLines == {AiThrows, "Memo time, Ada."}

\* request bodies of updateReminder; user and tts are not updatable fields
EnrBodies ==
  { [title |-> "memo", user |-> "u2"],
    [startDate |-> NoDate, isManualSchedule |-> TRUE, tts |-> NoTts],
    [startDate |-> WednesdayTen] }

EnrichInit ==
  /\ clock = TuesdayNoon
  /\ envMaxMeters = <<>>
  /\ \E ty \in {"Task", "Meeting", "Location"}, man \in BOOLEAN,
        sd \in {NoDate, TuesdayNoon + 2 * HourMs} :
       reminders = [r \in RIds |->
         IF r = 1 THEN [NewReminder("u1", ty, "report") EXCEPT
                          !.isManualSchedule = man, !.startDate = sd]
         ELSE IF r = 2 THEN [NewReminder("u1", "Meeting", "standup") EXCEPT
                          !.isManualSchedule = TRUE, !.startDate = TuesdayNoon + HourMs,
                          !.aiNotificationLine = "Standup soon, Ada."]
         ELSE Absent]
  /\ notifications = <<>>
  /\ scan = [s \in ScanIds |-> IdleScan]
  /\ req = [q \in ReqIds |-> IdleReq]
  /\ ttsf = [p \in Pids |-> NoFrame]
  /\ trigLog = [r \in RIds |-> <<>>]
  /\ lastTts = [r \in RIds |-> NoLast]
  /\ nScans = 0
  /\ nReqs = 0
  /\ users = <<>>
  /\ buckets = <<>>
  /\ passed = <<>>
  /\ nearby = <<>>

EnrichNext ==
  \/ \E body \in EnrBodies : nReqs < MaxReqs /\ ReqUpdate("q1", 1, "u1", body, FALSE)
  \/ ReqAfterTts("q1")
  \/ EnrFind("q1")
  \/ \E ai \in EnrAnswers : EnrSchedule("q1", ai)
  \/ \E ok \in BOOLEAN : EnrFallback("q1", ok)
  \/ \E ai \in EnrLines : EnrLine("q1", ai)
  \/ EnrDone("q1")
  \/ nReqs < MaxReqs /\ ReqEnsureNow("q2", 1, "u1")
  \/ ReqEnsureNowDone("q2")
  \/ \E p \in ReqIds : TtsFind(p)
  \/ \E p \in ReqIds : TtsSavePending(p)
  \/ \E p \in ReqIds, ok \in BOOLEAN : TtsSynth(p, ok)

SpecEnrich == EnrichInit /\ [][EnrichNext]_vars

\* no request handler, enrichment pass or speech-stage call is in flight
Quiescent ==
  /\ \A q \in ReqIds : req[q].pc \in {"idle", "done"}
  /\ \A s \in ScanIds : scan[s].pc \in {"idle", "done"}
  /\ \A p \in Pids : ttsf[p].pc = "none"

\* C8: whenever no handler is in flight, a stored reminder whose tts.status is ready
\* has non-empty audio and a tts.textHash equal to the hash of its tts.voiceId and its
\* currently active notification text, as buildNotificationText computes it.
C8_ReadyMatchesText ==
  Quiescent =>
    \A r \in RIds :
      (reminders[r].exists /\ reminders[r].tts.status = "ready") =>
        /\ reminders[r].tts.audio # ""
        /\ reminders[r].tts.textHash =
             computeTextHash(buildNotificationText(reminders[r], reminders[r].user),
                             reminders[r].tts.voiceId)

\* C9: a call of ensureReminderTTS that follows a successful one on the same reminder
\* (status ready, audio stored) with the same notification text and voice returns at
\* once: it makes no synthesis call and writes nothing to the tts record.
C9_SpeechIdempotence ==
  \A p \in Pids :
    ttsf[p].pre =>
      /\ ttsf[p].pc = "ret"
      /\ ttsf[p].synths = 0
      /\ ttsf[p].writes = 0

C9_Witness ==
  \E p \in Pids : ttsf[p].pre /\ ttsf[p].pc = "ret" /\ lastTts[ttsf[p].rid].ok

ScheduleFields(rem) ==
  <<rem.startDate, rem.scheduleType, rem.scheduleDays, rem.scheduleTime,
    rem.notificationPreferenceMinutes, rem.aiSuggested>>

\* the reminder the pass read is a Task with isManualSchedule false and no startDate
ResolverCase(q) ==
  /\ req[q].orig.type = "Task"
  /\ req[q].orig.isManualSchedule = FALSE
  /\ req[q].orig.startDate = NoDate

InPass(q) == req[q].orig.exists /\ req[q].pc \in {"esched", "efallback", "eline", "etts", "done"}

\* C10: an enrichment pass over a reminder that is not a Task with isManualSchedule
\* false and no startDate calls neither the AI schedule capability nor the fallback
\* heuristic, assigns none of startDate, scheduleType, scheduleDays, scheduleTime,
\* notificationPreferenceMinutes and aiSuggested, and its save leaves them as stored.
C10_ResolverFrame ==
  /\ [](\A q \in ReqIds :
          (InPass(q) /\ ~ResolverCase(q)) =>
            /\ ~req[q].calledAI
            /\ ~req[q].calledFallback
            /\ req[q].pc \notin {"esched", "efallback"}
            /\ ScheduleFields(req[q].rem) = ScheduleFields(req[q].orig))
  /\ [][\A q \in ReqIds :
          (req[q].pc \in {"eline", "etts"} /\ req'[q] # req[q] /\ ~ResolverCase(q)) =>
            ScheduleFields(reminders'[req[q].rid]) = ScheduleFields(reminders[req[q].rid])]_vars

C10_Witness ==
  \E q \in ReqIds :
    /\ req[q].pc = "done" /\ req[q].orig.exists /\ ~ResolverCase(q)
    /\ req[q].orig.type \in {"Meeting", "Location"}
    /\ req[q].rem.aiNotificationLine # req[q].orig.aiNotificationLine
    /\ reminders[req[q].rid].aiNotificationLine = req[q].rem.aiNotificationLine

-----------------------------------------------------------------------------
(* Two scan requests and an update on one Location reminder *)

MaxTicks == 1

RaceStep == 90 * MinuteMs

RaceInit ==
  /\ clock = TuesdayNoon
  /\ envMaxMeters = <<>>
  /\ reminders = [r \in RIds |-> IF r = 1 THEN BaseR1 ELSE Absent]
  /\ notifications = <<>>
  /\ scan = [s \in ScanIds |-> IdleScan]
  /\ req = [q \in ReqIds |-> IdleReq]
  /\ ttsf = [p \in Pids |-> NoFrame]
  /\ trigLog = [r \in RIds |-> <<>>]
  /\ lastTts = [r \in RIds |-> NoLast]
  /\ nScans = 0
  /\ nReqs = 0
  /\ users = <<>>
  /\ buckets = <<>>
  /\ passed = <<>>
  /\ nearby = <<>>

RaceNext ==
  \/ \E s \in ScanIds : ScanStart(s, "u1")
  \/ \E s \in ScanIds : ScanFind(s)
  \/ \E s \in ScanIds : ScanFilter(s)
  \/ \E s \in ScanIds : ScanPlaces(s, PlaceAt(90))
  \/ \E s \in ScanIds : ScanCollision(s)
  \/ \E s \in ScanIds : ScanUpdate(s)
  \/ \E s \in ScanIds : ScanLine(s, AiThrows)
  \/ \E s \in ScanIds : ScanNotify(s, TRUE)
  \/ \E s \in ScanIds : ScanRespond(s)
  \/ \E s \in ScanIds : TtsFind(s)
  \/ \E s \in ScanIds : TtsSavePending(s)
  \/ \E s \in ScanIds : TtsSynth(s, TRUE)
  \/ nReqs < 1 /\ ReqUpdate("q1", 1, "u1", [lastTriggeredAt |-> NoDate], FALSE)
  \/ EnrFind("q1")
  \/ EnrLine("q1", AiThrows)
  \/ clock < TuesdayNoon + MaxTicks * RaceStep /\ Tick(RaceStep)

SpecRace == RaceInit /\ [][RaceNext]_vars

NinetyMinutes == 90 * MinuteMs

\* C1: any two 'triggered' outcomes for the same reminder come from scans whose
\* times (the lastTriggeredAt each one set) are at least 90 minutes apart.
C1_TriggerGap ==
  \A r \in RIds : \A i, j \in 1..Len(trigLog[r]) :
    i < j => \/ trigLog[r][j] - trigLog[r][i] >= NinetyMinutes
             \/ trigLog[r][i] - trigLog[r][j] >= NinetyMinutes

-----------------------------------------------------------------------------
(* A user update that fixes the schedule while an enrichment pass is in flight *)

ThursdayNoon == TuesdayNoon + 2 * DayMs

UserDate == WednesdayTen

\* the update that declares the schedule
ManualBody == [isManualSchedule |-> TRUE, startDate |-> UserDate]

ManualAnswers ==
  { [kind |-> "throws", obj |-> NoObj],
    [kind |-> "answer", obj |-> [NoObj EXCEPT !.startDateISO = ThursdayNoon,
                                              !.scheduleType = "one-day"]],
    [kind |-> "answer", obj |-> [NoObj EXCEPT !.scheduleType = "routine",
                                              !.scheduleTime.fixedTime = "08:30"]] }

ManualInit ==
  /\ clock = TuesdayNoon
  /\ envMaxMeters = <<>>
  /\ reminders = [r \in RIds |-> IF r = 1 THEN NewReminder("u1", "Task", "report") ELSE Absent]
  /\ notifications = <<>>
  /\ scan = [s \in ScanIds |-> IdleScan]
  /\ req = [q \in ReqIds |-> IdleReq]
  /\ ttsf = [p \in Pids |-> NoFrame]
  /\ trigLog = [r \in RIds |-> <<>>]
  /\ lastTts = [r \in RIds |-> NoLast]
  /\ nScans = 0
  /\ nReqs = 0
  /\ users = <<>>
  /\ buckets = <<>>
  /\ passed = <<>>
  /\ nearby = <<>>

ManualNext ==
  \/ req["q1"].pc = "idle" /\ ReqUpdate("q1", 1, "u1", [title |-> "memo"], FALSE)
  \/ req["q2"].pc = "idle" /\ ReqUpdate("q2", 1, "u1", ManualBody, FALSE)
  \/ \E q \in ReqIds : ReqAfterTts(q)
  \/ \E q \in ReqIds : EnrFind(q)
  \/ \E q \in ReqIds, ai \in ManualAnswers : EnrSchedule(q, ai)
  \/ \E q \in ReqIds : EnrFallback(q, TRUE)
  \/ \E q \in ReqIds, ai \in EnrLines : EnrLine(q, ai)
  \/ \E q \in ReqIds : EnrDone(q)
  \/ \E p \in ReqIds : TtsFind(p)
  \/ \E p \in ReqIds : TtsSavePending(p)
  \/ \E p \in ReqIds, ok \in BOOLEAN : TtsSynth(p, ok)

SpecManual == ManualInit /\ [][ManualNext]_vars

\* C11: once the update that sets isManualSchedule = true and a startDate, the other
\* update and both their enrichment passes have completed, the stored reminder still
\* has the startDate the user declared.
C11_ManualScheduleKept ==
  (req["q1"].pc = "done" /\ req["q2"].pc = "done") =>
    (reminders[1].isManualSchedule /\ reminders[1].startDate = UserDate)

-----------------------------------------------------------------------------
(* The schedule stage over the answers the schedule capability can give *)

ResolveClocks == {TuesdayNoon, TuesdayNoon + 5 * HourMs + 30 * MinuteMs}

\* one-day answers in and out of range, with and without a lead time; routine answers
ResolveAnswers(now) ==
  LET oneDay(d, m) == [kind |-> "answer",
                       obj |-> [NoObj EXCEPT !.startDateISO = d, !.scheduleType = "one-day",
                                             !.scheduleTime.minutesBeforeStart = m]]
      routine(d, t) == [kind |-> "answer",
                        obj |-> [NoObj EXCEPT !.startDateISO = d, !.scheduleType = "routine",
                                              !.scheduleDays = <<1, 3, 9>>,
                                              !.scheduleTime.fixedTime = t]]
  IN { [kind |-> "unavailable", obj |-> NoObj], [kind |-> "throws", obj |-> NoObj],
       oneDay(now + 2 * DayMs, -1), oneDay(now + 2 * DayMs, 30), oneDay(now + 2 * DayMs, -5),
       oneDay(now, -1), oneDay(now - HourMs, -1), oneDay(now + 8 * DayMs, -1),
       oneDay(NoDate, -1), oneDay(BadDate, -1),
       routine(NoDate, "08:30"), routine(NoDate, ""), routine(BadDate, "08:30") }

\* a request body without any updatable field
NoopBody == [user |-> "u2"]

ResolveInit ==
  /\ clock \in ResolveClocks
  /\ envMaxMeters = <<>>
  /\ \E h \in {1, 16} :
       reminders = [r \in RIds |->
         IF r = 1 THEN NewReminder("u1", "Task", "report")
         ELSE IF r = 2 THEN [NewReminder("u1", "Meeting", "standup") EXCEPT
                          !.isManualSchedule = TRUE, !.startDate = clock + h * HourMs,
                          !.aiNotificationLine = "Standup soon, Ada."]
         ELSE [NewReminder("u2", "Meeting", "review") EXCEPT
                          !.isManualSchedule = TRUE, !.startDate = clock + 2 * HourMs,
                          !.aiNotificationLine = "Review soon."]]
  /\ notifications = <<>>
  /\ scan = [s \in ScanIds |-> IdleScan]
  /\ req = [q \in ReqIds |-> IdleReq]
  /\ ttsf = [p \in Pids |-> NoFrame]
  /\ trigLog = [r \in RIds |-> <<>>]
  /\ lastTts = [r \in RIds |-> NoLast]
  /\ nScans = 0
  /\ nReqs = 0
  /\ users = <<>>
  /\ buckets = <<>>
  /\ passed = <<>>
  /\ nearby = <<>>

ResolveNext ==
  \/ nReqs < MaxReqs /\ ReqUpdate("q1", 1, "u1", NoopBody, FALSE)
  \/ ReqAfterTts("q1")
  \/ EnrFind("q1")
  \/ \E ai \in ResolveAnswers(clock) : EnrSchedule("q1", ai)
  \/ \E ok \in BOOLEAN : EnrFallback("q1", ok)
  \/ \E ai \in EnrLines : EnrLine("q1", ai)
  \/ EnrDone("q1")
  \/ TtsFind("q1")
  \/ TtsSavePending("q1")
  \/ \E ok \in BOOLEAN : TtsSynth("q1", ok)

SpecResolve == ResolveInit /\ [][ResolveNext]_vars

\* the pass of q got an answer from the schedule capability and is past that call
Answered(q) ==
  /\ req[q].orig.exists
  /\ req[q].ans.kind = "answer"
  /\ req[q].pc \in {"efallback", "eline", "etts", "done"}

\* d is a start time strictly after now and no later than now + 7 days
InHorizon(d, now) == d # NoDate /\ d # BadDate /\ d > now /\ d <= now + SevenDaysMs

\* C12: the resolver takes the capability's answer exactly when it is a one-day answer
\* whose start time is strictly after now and no later than now + 7 days, or a routine
\* answer with a fixedTime; any other answer leaves the schedule to the fallback.
C12_AnswerValidation ==
  \A q \in ReqIds :
    Answered(q) =>
      LET o == req[q].ans.obj
      IN (req[q].scheduleSource = "gemini") <=>
           IF o.scheduleType = "routine" THEN o.scheduleTime.fixedTime # ""
           ELSE InHorizon(o.startDateISO, req[q].aiNow)

\* C13: whenever findSmartSlot returns a slot for a call made at now, the slot is at
\* least now + 1h, at most now + 7d, and differs from the startDate of every existing
\* reminder of the user.
C13_ScheduleHorizon ==
  [][\A q \in ReqIds :
       (req[q].pc = "efallback" /\ req'[q].scheduleSource = "fallback") =>
         LET d == req'[q].rem.startDate
         IN /\ d >= req[q].now + HourMs
            /\ d <= req[q].now + SevenDaysMs
            /\ \A r \in RIds :
                 (reminders[r].exists /\ reminders[r].user = req[q].rem.user) =>
                   reminders[r].startDate # d]_vars

C13_Witness ==
  \E q \in ReqIds :
    /\ req[q].scheduleSource = "fallback"
    /\ \E r \in RIds : reminders[r].exists /\ reminders[r].user = req[q].rem.user
                       /\ reminders[r].startDate = req[q].now + HourMs
    /\ req[q].rem.startDate = req[q].now + 2 * HourMs

\* the schedule capability was unavailable, threw, or gave a one-day answer with a
\* missing, unparseable or past start time or a routine answer without fixedTime
NoUsableAnswer(q) ==
  \/ req[q].ans.kind \in {"unavailable", "throws"}
  \/ /\ req[q].ans.kind = "answer"
     /\ LET o == req[q].ans.obj
        IN IF o.scheduleType = "routine" THEN o.scheduleTime.fixedTime = ""
           ELSE o.startDateISO = NoDate \/ o.startDateISO = BadDate
                \/ o.startDateISO <= req[q].aiNow

SaveStep(q) == req[q].pc = "eline" /\ req'[q].pc # "eline"

\* C15: when the capability answers a Task without startDate and manual schedule with
\* a one-day schedule whose start S is strictly after now and within 7 days, the save
\* of the pass leaves the stored reminder with startDate = S, scheduleType one-day,
\* aiSuggested true and notificationPreferenceMinutes equal to the answer's
\* minutesBeforeStart when that is a number and 10 otherwise.
C15_ScheduleApplied ==
  [][\A q \in ReqIds :
       LET o == req[q].ans.obj
       IN (/\ SaveStep(q) /\ ResolverCase(q) /\ req[q].ans.kind = "answer"
           /\ o.scheduleType # "routine" /\ InHorizon(o.startDateISO, req[q].aiNow)) =>
            /\ reminders'[req[q].rid].startDate = o.startDateISO
            /\ reminders'[req[q].rid].scheduleType = "one-day"
            /\ reminders'[req[q].rid].aiSuggested
            /\ reminders'[req[q].rid].notificationPreferenceMinutes =
                 IF o.scheduleTime.minutesBeforeStart # -1
                   THEN o.scheduleTime.minutesBeforeStart ELSE 10]_vars

\* C16: every enrichment pass that found its reminder ends by returning, with the
\* notification line assigned and stored, whatever the schedule capability, the line
\* capability and the speech synthesis answered.
C16_StagesIndependent ==
  \A q \in ReqIds :
    (req[q].pc = "done" /\ req[q].orig.exists) =>
      /\ ~req[q].threw
      /\ req[q].rem.aiNotificationLine # ""
      /\ reminders[req[q].rid].aiNotificationLine = req[q].rem.aiNotificationLine

\* C17: a pass over a Task with isManualSchedule false and no startDate always attempts
\* the schedule (the capability or the fallback), also when an earlier pass found none;
\* a pass in which neither yields a schedule assigns no schedule field and its save
\* leaves startDate absent and the schedule fields and aiSuggested as stored.
C17_RetryUnscheduled ==
  /\ [](\A q \in ReqIds :
          (InPass(q) /\ ResolverCase(q) /\ req[q].pc \in {"eline", "etts", "done"}) =>
            /\ req[q].calledAI \/ req[q].calledFallback
            /\ req[q].scheduleSource = "" =>
                 ScheduleFields(req[q].rem) = ScheduleFields(req[q].orig))
  /\ [][\A q \in ReqIds :
          (SaveStep(q) /\ ResolverCase(q) /\ req[q].scheduleSource = "") =>
            /\ reminders'[req[q].rid].startDate = NoDate
            /\ ScheduleFields(reminders'[req[q].rid]) = ScheduleFields(reminders[req[q].rid])]_vars

C17_Witness ==
  \E q \in ReqIds :
    /\ req[q].pc = "done" /\ ResolverCase(q) /\ req[q].orig.exists
    /\ req[q].orig.aiNotificationLine # "" /\ ~req[q].orig.aiSuggested
    /\ req[q].calledFallback /\ req[q].scheduleSource = ""
    /\ reminders[req[q].rid].startDate = NoDate

\* C18: a pass over a reminder to which an earlier pass applied a schedule, with no
\* user change in between, saves without changing the stored startDate, scheduleType,
\* scheduleDays, scheduleTime and notificationPreferenceMinutes.
C18_EnrichmentIdempotent ==
  [][\A q \in ReqIds :
       (SaveStep(q) /\ req[q].orig.exists /\ req[q].orig.aiSuggested) =>
         LET a == reminders[req[q].rid]
             b == reminders'[req[q].rid]
         IN /\ b.startDate = a.startDate
            /\ b.scheduleType = a.scheduleType
            /\ b.scheduleDays = a.scheduleDays
            /\ b.scheduleTime = a.scheduleTime
            /\ b.notificationPreferenceMinutes = a.notificationPreferenceMinutes]_vars

-----------------------------------------------------------------------------
(* createReminder and updateReminder over an empty store *)

CrudBodies ==
  { [type |-> "Meeting", title |-> "standup", startDate |-> WednesdayTen,
     isManualSchedule |-> FALSE, scheduleType |-> "routine"],
    [type |-> "Meeting", title |-> "standup"],
    [type |-> "Task", title |-> "report"],
    [type |-> "Location", title |-> "cafe", day |-> "Funday"] }

CrudUpdates ==
  { [isManualSchedule |-> FALSE], [scheduleType |-> "routine"], [type |-> "Meeting"],
    [title |-> "memo", user |-> "u2"] }

CrudInit ==
  /\ clock = TuesdayNoon
  /\ envMaxMeters = <<>>
  /\ reminders = [r \in RIds |-> Absent]
  /\ notifications = <<>>
  /\ scan = [s \in ScanIds |-> IdleScan]
  /\ req = [q \in ReqIds |-> IdleReq]
  /\ ttsf = [p \in Pids |-> NoFrame]
  /\ trigLog = [r \in RIds |-> <<>>]
  /\ lastTts = [r \in RIds |-> NoLast]
  /\ nScans = 0
  /\ nReqs = 0
  /\ users = <<>>
  /\ buckets = <<>>
  /\ passed = <<>>
  /\ nearby = <<>>

CrudNext ==
  \/ \E body \in CrudBodies : nReqs < MaxReqs /\ ReqCreate("q1", 1, "u1", body, FALSE)
  \/ ReqCreateFind("q1")
  \/ \E body \in CrudUpdates : nReqs < MaxReqs /\ ReqUpdate("q2", 1, "u1", body, FALSE)
  \/ \E q \in ReqIds : ReqAfterTts(q)
  \/ \E q \in ReqIds : EnrFind(q)
  \/ \E q \in ReqIds, ai \in ManualAnswers : EnrSchedule(q, ai)
  \/ \E q \in ReqIds : EnrFallback(q, TRUE)
  \/ \E q \in ReqIds : EnrLine(q, AiThrows)
  \/ \E q \in ReqIds : EnrDone(q)
  \/ \E p \in ReqIds : TtsFind(p)
  \/ \E p \in ReqIds : TtsSavePending(p)
  \/ \E p \in ReqIds : TtsSynth(p, TRUE)

SpecCrud == CrudInit /\ [][CrudNext]_vars

\* C19: every stored Meeting reminder has isManualSchedule = true and scheduleType
\* one-day.
C19_MeetingManualOneDay ==
  \A r \in RIds :
    (reminders[r].exists /\ reminders[r].type = "Meeting") =>
      (reminders[r].isManualSchedule /\ reminders[r].scheduleType = "one-day")

\* C20: no step changes the type or the user of a stored reminder.
C20_KindAndOwnerFixed ==
  [][\A r \in RIds :
       (reminders[r].exists /\ reminders'[r].exists) =>
         (reminders'[r].type = reminders[r].type /\ reminders'[r].user = reminders[r].user)]_vars

-----------------------------------------------------------------------------
(* The handlers that look one reminder up by id and owner *)

\* getReminder: Reminder.findOne({ _id: id, user: userId })
ReqGet(q, rid, u) ==
  /\ req[q].pc \in {"idle", "done"}
  /\ ttsf[q].pc = "none"
  /\ nReqs' = nReqs + 1
  /\ LET reminder == reminders[rid]
         found == reminder.exists /\ reminder.user = u
         r0 == [IdleReq EXCEPT !.kind = "get", !.rid = rid, !.user = u, !.pc = "done"]
     IN req' = [req EXCEPT ![q] =
          IF ~found THEN [r0 EXCEPT !.resp = "404"]
          ELSE [r0 EXCEPT !.resp = "200", !.data = reminder]]
  /\ UNCHANGED <<users, buckets, passed, nearby, clock, envMaxMeters, reminders, notifications, scan, ttsf, trigLog, lastTts,
                 nScans>>

ReqDeleteMutAnyOwner(q, rid, u) ==
  /\ req[q].pc \in {"idle", "done"}
  /\ ttsf[q].pc = "none"
  /\ nReqs' = nReqs + 1
  /\ LET removed == reminders[rid].exists
         r0 == [IdleReq EXCEPT !.kind = "delete", !.rid = rid, !.user = u, !.pc = "done"]
     IN IF ~removed
          THEN /\ req' = [req EXCEPT ![q] = [r0 EXCEPT !.resp = "404"]]
               /\ UNCHANGED <<reminders, lastTts>>
          ELSE /\ req' = [req EXCEPT ![q] = [r0 EXCEPT !.resp = "200"]]
               /\ reminders' = [reminders EXCEPT ![rid] = Absent]
               /\ lastTts' = [lastTts EXCEPT ![rid] = NoLast]
  /\ UNCHANGED <<users, buckets, passed, nearby, clock, envMaxMeters, notifications, scan, ttsf, trigLog, nScans>>

\* deleteReminder: Reminder.findOneAndDelete({ _id: id, user: userId })
ReqDelete(q, rid, u) ==
  /\ req[q].pc \in {"idle", "done"}
  /\ ttsf[q].pc = "none"
  /\ nReqs' = nReqs + 1
  /\ LET removed == reminders[rid].exists /\ reminders[rid].user = u
         r0 == [IdleReq EXCEPT !.kind = "delete", !.rid = rid, !.user = u, !.pc = "done"]
     IN IF ~removed
          THEN /\ req' = [req EXCEPT ![q] = [r0 EXCEPT !.resp = "404"]]
               /\ UNCHANGED <<reminders, lastTts>>
          ELSE /\ req' = [req EXCEPT ![q] = [r0 EXCEPT !.resp = "200"]]
               /\ reminders' = [reminders EXCEPT ![rid] = Absent]
               /\ lastTts' = [lastTts EXCEPT ![rid] = NoLast]
  /\ UNCHANGED <<users, buckets, passed, nearby, clock, envMaxMeters, notifications, scan, ttsf, trigLog, nScans>>

\* getReminderTTS: the reminder's stored audio, or 404 'TTS not available'
ReqGetTts(q, rid, u) ==
  /\ req[q].pc \in {"idle", "done"}
  /\ ttsf[q].pc = "none"
  /\ nReqs' = nReqs + 1
  /\ LET reminder == reminders[rid]
         found == reminder.exists /\ reminder.user = u
         r0 == [IdleReq EXCEPT !.kind = "getTts", !.rid = rid, !.user = u, !.pc = "done"]
     IN req' = [req EXCEPT ![q] =
          IF ~found THEN [r0 EXCEPT !.resp = "404"]
          ELSE IF reminder.tts.audio = "" THEN [r0 EXCEPT !.resp = "404 TTS not available"]
          ELSE [r0 EXCEPT !.resp = "200", !.data = reminder]]
  /\ UNCHANGED <<users, buckets, passed, nearby, clock, envMaxMeters, reminders, notifications, scan, ttsf, trigLog, lastTts,
                 nScans>>

\* a store with a reminder of each user and a free id; u1 is the caller
LookupInit ==
  /\ clock = TuesdayNoon
  /\ envMaxMeters = <<>>
  /\ \E sd \in {NoDate, TuesdayNoon + 2 * HourMs} :
       reminders = [r \in RIds |->
         IF r = 1 THEN [NewReminder("u1", "Task", "report") EXCEPT !.startDate = sd]
         ELSE IF r = 2 THEN [NewReminder("u2", "Task", "taxes") EXCEPT
                               !.startDate = TuesdayNoon + HourMs]
         ELSE Absent]
  /\ notifications = <<>>
  /\ scan = [s \in ScanIds |-> IdleScan]
  /\ req = [q \in ReqIds |-> IdleReq]
  /\ ttsf = [p \in Pids |-> NoFrame]
  /\ trigLog = [r \in RIds |-> <<>>]
  /\ lastTts = [r \in RIds |-> NoLast]
  /\ nScans = 0
  /\ nReqs = 0
  /\ users = <<>>
  /\ buckets = <<>>
  /\ passed = <<>>
  /\ nearby = <<>>

\* updateReminder's request body
LookupBody == [title |-> "memo"]

LookupNext ==
  \/ \E rid \in RIds : nReqs < MaxReqs /\ ReqGet("q1", rid, "u1")
  \/ \E rid \in RIds : nReqs < MaxReqs /\ ReqDelete("q1", rid, "u1")
  \/ \E rid \in RIds : nReqs < MaxReqs /\ ReqGetTts("q1", rid, "u1")
  \/ \E rid \in RIds : nReqs < MaxReqs /\ ReqUpdate("q2", rid, "u1", LookupBody, FALSE)
  \/ \E rid \in RIds : nReqs < MaxReqs /\ ReqEnsureNow("q2", rid, "u1")
  \/ ReqEnsureNowDone("q2")
  \/ ReqAfterTts("q2")
  \/ EnrFind("q2")
  \/ EnrSchedule("q2", [kind |-> "unavailable", obj |-> NoObj])
  \/ EnrFallback("q2", TRUE)
  \/ EnrLine("q2", AiThrows)
  \/ EnrDone("q2")
  \/ TtsFind("q2")
  \/ TtsSavePending("q2")
  \/ \E ok \in BOOLEAN : TtsSynth("q2", ok)

SpecLookup == LookupInit /\ [][LookupNext]_vars

\* the five handlers that address one reminder by id
LookupKinds == {"get", "update", "delete", "getTts", "ensureNow"}

\* C21: getReminder, updateReminder, deleteReminder, getReminderTTS and
\* ensureReminderTTSNow called with an id that does not exist or belongs to another
\* user end at once with 404 'Reminder not found', and that step changes no reminder,
\* starts no enrichment pass, makes no speech-stage call and creates no notification.
C21_NotFoundNoEffect ==
  [][nReqs' # nReqs =>
       \A q \in ReqIds :
         ( /\ req'[q] # req[q]
           /\ req'[q].kind \in LookupKinds
           /\ ~(reminders[req'[q].rid].exists
                /\ reminders[req'[q].rid].user = req'[q].user) ) =>
           /\ req'[q].resp = "404"
           /\ req'[q].pc = "done"
           /\ reminders' = reminders
           /\ notifications' = notifications
           /\ ttsf' = ttsf
           /\ lastTts' = lastTts]_vars

C21_Witness ==
  /\ req["q1"].kind = "delete" /\ req["q1"].rid = 2 /\ req["q1"].resp = "404"
  /\ req["q2"].kind = "ensureNow" /\ req["q2"].rid = 3 /\ req["q2"].resp = "404"
  /\ reminders[2].exists /\ reminders[2].user = "u2"

-----------------------------------------------------------------------------
(* A scan over reminders of every status, beside an update of the status *)

TriggerStatuses == {"active", "expired", "completed"}

TriggerInit ==
  /\ clock = TuesdayNoon
  /\ envMaxMeters = <<>>
  /\ \E st \in TriggerStatuses, done \in BOOLEAN :
       reminders = [r \in RIds |->
         IF r = 1 THEN [NewReminder("u1", "Location", "cafe") EXCEPT
                          !.status = st, !.isCompleted = done]
         ELSE IF r = 2 THEN NewReminder("u2", "Location", "bakery")
         ELSE NewReminder("u1", "Task", "report")]
  /\ notifications = <<>>
  /\ scan = [s \in ScanIds |-> IdleScan]
  /\ req = [q \in ReqIds |-> IdleReq]
  /\ ttsf = [p \in Pids |-> NoFrame]
  /\ trigLog = [r \in RIds |-> <<>>]
  /\ lastTts = [r \in RIds |-> NoLast]
  /\ nScans = 0
  /\ nReqs = 0
  /\ users = <<>>
  /\ buckets = <<>>
  /\ passed = <<>>
  /\ nearby = <<>>

\* the places the lookup answers with
TriggerPlaces == {NoPlace, PlaceAt(90)}

\* number of updateReminder requests beside the scan
MaxTriggerReqs == 1

\* updateReminder's request bodies
TriggerBodies == {[status |-> st] : st \in TriggerStatuses}

TriggerNext ==
  \/ ScanStart("s1", "u1")
  \/ ScanFind("s1")
  \/ ScanFilter("s1")
  \/ \E res \in TriggerPlaces : ScanPlaces("s1", res)
  \/ ScanCollision("s1")
  \/ ScanUpdate("s1")
  \/ ScanLine("s1", AiThrows)
  \/ ScanNotify("s1", TRUE)
  \/ ScanRespond("s1")
  \/ TtsFind("s1")
  \/ TtsSavePending("s1")
  \/ TtsSynth("s1", TRUE)
  \/ \E body \in TriggerBodies : nReqs < MaxTriggerReqs /\ ReqUpdate("q1", 1, "u1", body, FALSE)
  \/ EnrFind("q1")
  \/ EnrLine("q1", AiThrows)

SpecTrigger == TriggerInit /\ [][TriggerNext]_vars

\* C22: every outcome of a scan is about a reminder of type Location that belongs to
\* the caller and has status active, and the scan's trigger update and notification
\* are for such a reminder only.
C22_OnlyActiveLocation ==
  /\ [](\A s \in ScanIds : \A i \in 1..Len(scan[s].out) :
          LET r == scan[s].cands[i].doc
          IN r.type = "Location" /\ r.user = scan[s].user /\ r.status = "active")
  /\ [][\A s \in ScanIds :
          (scan[s].pc = "update" /\ scan'[s].pc # "update") =>
            \A r \in RIds :
              reminders'[r] # reminders[r] =>
                /\ reminders[r].type = "Location"
                /\ reminders[r].user = scan[s].user
                /\ reminders[r].status = "active"]_vars
  /\ [][\A s \in ScanIds :
          (scan[s].pc \in {"tts", "notify"} /\ Len(notifications') > Len(notifications)) =>
            LET r == reminders[notifications'[Len(notifications')].reminderId]
            IN r.exists => (r.type = "Location" /\ r.user = scan[s].user
                            /\ r.status = "active")]_vars

\* C23: the trigger update of a candidate that passed every gate sets lastTriggeredAt
\* to the scan time and triggeredLocation to the resolved place's coordinates, place
\* id, name and rating, and leaves status as it was before the update.
C23_TriggerEffect ==
  [][\A s \in ScanIds :
       (scan[s].pc = "update" /\ scan'[s].pc # "update"
          /\ reminders[scan[s].cands[scan[s].idx].id].exists) =>
         LET id == scan[s].cands[scan[s].idx].id
             place == scan[s].place
         IN /\ reminders'[id].lastTriggeredAt = scan[s].now
            /\ reminders'[id].triggeredLocation =
                 [lat |-> IF place.coords THEN place.lat ELSE NaN,
                  lng |-> IF place.coords THEN place.lng ELSE NaN,
                  placeId |-> place.placeId, name |-> place.name, rating |-> place.rating]
            /\ reminders'[id].status = reminders[id].status]_vars

-----------------------------------------------------------------------------
(* A scan over two candidates that can both trigger, beside a delete *)

PairInit ==
  /\ clock = TuesdayNoon
  /\ envMaxMeters = <<>>
  /\ reminders = [r \in RIds |->
       IF r = 1 THEN NewReminder("u1", "Location", "cafe")
       ELSE IF r = 2 THEN NewReminder("u1", "Location", "bakery")
       ELSE NewReminder("u1", "Task", "report")]
  /\ notifications = <<>>
  /\ scan = [s \in ScanIds |-> IdleScan]
  /\ req = [q \in ReqIds |-> IdleReq]
  /\ ttsf = [p \in Pids |-> NoFrame]
  /\ trigLog = [r \in RIds |-> <<>>]
  /\ lastTts = [r \in RIds |-> NoLast]
  /\ nScans = 0
  /\ nReqs = 0
  /\ users = <<>>
  /\ buckets = <<>>
  /\ passed = <<>>
  /\ nearby = <<>>

\* the places the lookup answers with, or its failure
PairPlaces == {PlacesThrow, PlaceAt(90)}

PairLines == {AiThrows, "Almost there, Ada!"}

PairNext ==
  \/ ScanStart("s1", "u1")
  \/ ScanFind("s1")
  \/ ScanFilter("s1")
  \/ \E res \in PairPlaces : ScanPlaces("s1", res)
  \/ ScanCollision("s1")
  \/ ScanUpdate("s1")
  \/ \E ai \in PairLines : ScanLine("s1", ai)
  \/ \E ok \in BOOLEAN : ScanNotify("s1", ok)
  \/ ScanRespond("s1")
  \/ TtsFind("s1")
  \/ TtsSavePending("s1")
  \/ \E ok \in BOOLEAN : TtsSynth("s1", ok)
  \/ DeleteReminder(2, "u1")

SpecPair == PairInit /\ [][PairNext]_vars

\* scan s is in the line, speech or notification step of a candidate whose trigger
\* update succeeded
AfterUpdate(s) == scan[s].pc \in {"line", "tts", "notify"} /\ scan[s].upd.exists

\* C24: a candidate whose trigger update succeeded gets a triggered outcome with the
\* place's details whether or not the line, the speech synthesis or the notification
\* write failed, those steps leave its lastTriggeredAt and triggeredLocation alone,
\* and the scan's response reports the outcome.
C24_TriggeredReported ==
  /\ [][\A s \in ScanIds :
          (AfterUpdate(s) /\ (scan'[s] # scan[s] \/ ttsf'[s] # ttsf[s])) =>
            LET id == scan[s].cands[scan[s].idx].id
                n == Len(scan[s].out)
            IN /\ reminders'[id].exists =>
                    /\ reminders'[id].lastTriggeredAt = reminders[id].lastTriggeredAt
                    /\ reminders'[id].triggeredLocation = reminders[id].triggeredLocation
               /\ ~AfterUpdate(s)' =>
                    /\ Len(scan'[s].out) = n + 1
                    /\ ~scan'[s].out[n + 1].skipped
                    /\ scan'[s].out[n + 1].reminderId = id
                    /\ scan'[s].out[n + 1].place = scan[s].place
                    /\ scan[s].place.kind = "place"]_vars
  /\ [](\A s \in ScanIds :
          (scan[s].pc = "done" /\ \E i \in 1..Len(scan[s].out) : ~scan[s].out[i].skipped)
            => scan[s].resp = "200")

\* C25: when the places lookup of a candidate fails, that candidate gets a skipped
\* outcome with reason places_error, no reminder is changed by the step, and the scan
\* goes on with the next candidate.
C25_PlacesErrorSkips ==
  /\ [][\A s \in ScanIds :
          (scan[s].pc = "places" /\ scan'[s].pc # "places"
             /\ Len(scan'[s].out) > Len(scan[s].out)
             /\ scan'[s].out[Len(scan'[s].out)].reason = "places_error") =>
            /\ scan'[s].out[Len(scan'[s].out)].skipped
            /\ scan'[s].out[Len(scan'[s].out)].reminderId = scan[s].cands[scan[s].idx].id
            /\ reminders' = reminders /\ notifications' = notifications
            /\ scan'[s].pc = "loop" /\ scan'[s].idx = scan[s].idx + 1]_vars
  /\ [](\A s \in ScanIds : \A i \in 1..Len(scan[s].out) :
          scan[s].out[i].reason = "places_error" =>
            /\ scan[s].out[i].skipped
            /\ scan[s].out[i].ran = {"day", "throttle", "keyword", "places"}
            /\ trigLog[scan[s].out[i].reminderId] = <<>>)

\* the first candidate's lookup failed and the second one was triggered all the same
C25_Witness ==
  /\ Len(scan["s1"].out) = 2
  /\ scan["s1"].out[1].reason = "places_error"
  /\ ~scan["s1"].out[2].skipped
  /\ scan["s1"].resp = "200"
  /\ reminders[1] = NewReminder("u1", "Location", "cafe")

-----------------------------------------------------------------------------
(* Order of the per-candidate steps *)

\* the candidate of outcome x fails the day filter / the throttle / the keyword step
FailsDay(x) ==
  IF Len(x.r.scheduleDays) > 0
    THEN ~(\E i \in 1..Len(x.r.scheduleDays) : x.r.scheduleDays[i] = (x.now \div 86400000) % 7)
    ELSE x.r.day # "" /\ x.r.day # DayNames[((x.now \div 86400000) % 7) + 1]

FailsThrottle(x) == x.r.lastTriggeredAt # NoDate /\ x.now - x.r.lastTriggeredAt < 5400000

FailsKeyword(x) == x.r.title = ""

\* C30: the steps of a candidate run in the order day filter, throttle filter, keyword,
\* place resolution, distance gate, collision gate, trigger; the first failing step
\* gives the skip reason and no later step runs, so no places lookup is made for a
\* day_mismatch, anti_spam_window or no_keyword skip and no collision query for any
\* earlier skip.
C30_FilterOrder ==
  \A x \in AllOutcomes :
    /\ FailsDay(x) => (x.o.reason = "day_mismatch" /\ x.o.ran = {"day"})
    /\ (~FailsDay(x) /\ FailsThrottle(x)) =>
         (x.o.reason = "anti_spam_window" /\ x.o.ran = {"day", "throttle"})
    /\ (~FailsDay(x) /\ ~FailsThrottle(x) /\ FailsKeyword(x)) =>
         (x.o.reason = "no_keyword" /\ x.o.ran = {"day", "throttle", "keyword"})
    /\ (~FailsDay(x) /\ ~FailsThrottle(x) /\ ~FailsKeyword(x)) =>
         /\ {"day", "throttle", "keyword", "places"} \subseteq x.o.ran
         /\ x.o.reason \in {"places_error", "no_places_match"} =>
              x.o.ran = {"day", "throttle", "keyword", "places"}
         /\ x.o.reason = "too_far" =>
              x.o.ran = {"day", "throttle", "keyword", "places", "distance"}
         /\ x.o.reason = "collision" =>
              x.o.ran = {"day", "throttle", "keyword", "places", "distance", "collision"}
         /\ ~x.o.skipped =>
              x.o.ran = {"day", "throttle", "keyword", "places", "distance", "collision",
                         "update", "line", "tts", "notify"}
         /\ x.o.reason \in {"places_error", "no_places_match", "too_far", "collision", ""}
    /\ x.o.skipped <=> x.o.reason # ""

\* a candidate inside the throttle window and without a title was skipped by the
\* throttle, and one on the wrong day and without a title by the day filter
C30_Witness ==
  /\ \E x \in AllOutcomes :
       /\ ~FailsDay(x) /\ FailsThrottle(x) /\ FailsKeyword(x)
       /\ x.o.reason = "anti_spam_window"
  /\ \E x \in AllOutcomes : FailsDay(x) /\ FailsKeyword(x) /\ x.o.reason = "day_mismatch"

-----------------------------------------------------------------------------
(* The notification-text stage of the enrichment pass *)

\* the deterministic template for rem, keyed by its kind
LineTemplate(rem) == buildNotificationText([rem EXCEPT !.aiNotificationLine = ""], rem.user)

\* C27: when the notification-text stage of a pass ends, the stored aiNotificationLine
\* is the line the AI capability returned if it returned a non-empty one, and the
\* deterministic template of the reminder otherwise; it is never empty.
C27_LineAssigned ==
  [][\A q \in ReqIds :
       (req[q].pc = "eline" /\ req'[q].pc # "eline" /\ reminders'[req[q].rid].exists) =>
         LET stored == reminders'[req[q].rid]
         IN /\ stored.aiNotificationLine # ""
            /\ req'[q].lineSource # "gemini" =>
                 stored.aiNotificationLine = LineTemplate(req'[q].rem)]_vars

-----------------------------------------------------------------------------
(* The result metadata of the enrichment pass *)

\* the pass of q has returned { reminder, meta }
MetaReturned(q) ==
  /\ req[q].pc = "done" /\ req[q].kind \in {"create", "update"}
  /\ req[q].orig.exists /\ ~req[q].threw

\* the schedule capability gave the pass of q a schedule that the resolver accepted
FromCapability(q) ==
  req[q].ans.kind = "answer" /\ GeminiSchedule(req[q].ans.obj, req[q].aiNow).valid

\* the heuristic gave the pass of q a slot
FromHeuristic(q) ==
  /\ ~FromCapability(q) /\ req[q].calledFallback
  /\ req[q].rem.startDate # NoDate /\ req[q].orig.startDate = NoDate

\* C29: in the metadata a pass returns, scheduleSource is 'gemini' exactly when the
\* schedule the pass applied is the capability's, 'fallback' exactly when it is the
\* heuristic's slot, and null exactly when the pass applied no schedule.
C29_ScheduleSource ==
  \A q \in ReqIds :
    MetaReturned(q) =>
      /\ req[q].scheduleSource \in {"gemini", "fallback", ""}
      /\ req[q].scheduleSource = "gemini" <=> FromCapability(q)
      /\ req[q].scheduleSource = "fallback" <=> FromHeuristic(q)
      /\ req[q].scheduleSource = "gemini" =>
           ScheduleFields(req[q].rem) =
             ScheduleFields(ApplySchedule(req[q].orig,
                                          GeminiSchedule(req[q].ans.obj, req[q].aiNow)))
      /\ req[q].scheduleSource = "fallback" =>
           /\ req[q].rem.scheduleType = "one-day"
           /\ req[q].rem.scheduleTime = [minutesBeforeStart |-> 10, fixedTime |-> ""]
           /\ req[q].rem.aiSuggested
      /\ req[q].scheduleSource = "" =>
           /\ ScheduleFields(req[q].rem) = ScheduleFields(req[q].orig)
           /\ req[q].rem.aiSuggested = req[q].orig.aiSuggested

\* a pass whose capability threw took the heuristic's slot and reported 'fallback'
C29_Witness ==
  \E q \in ReqIds :
    /\ MetaReturned(q) /\ req[q].ans.kind = "throws"
    /\ req[q].scheduleSource = "fallback"
    /\ reminders[req[q].rid].startDate = req[q].rem.startDate
    /\ req[q].rem.startDate # NoDate

-----------------------------------------------------------------------------
(* controllers/notificationController.js *)

MaxNotes == 3

NoteTypes == {"task", "meeting", "location", "reminder"}

\* createNotification: the caller's id, type || 'reminder', message, !!isRead,
\* reminderId || null (0 here); Notification.create validates type and message
ReqCreateNotification(q, u, body) ==
  /\ req[q].pc \in {"idle", "done"}
  /\ ttsf[q].pc = "none"
  /\ Len(notifications) < MaxNotes
  /\ nReqs' = nReqs + 1
  /\ LET type0 == Field(body, "type", "")
         doc == [userId |-> u, type |-> IF type0 = "" THEN "reminder" ELSE type0,
                 message |-> Field(body, "message", ""),
                 isRead |-> Field(body, "isRead", FALSE),
                 reminderId |-> Field(body, "reminderId", 0)]
         valid == doc.type \in NoteTypes /\ doc.message # ""
         r0 == [IdleReq EXCEPT !.kind = "createNotification", !.user = u, !.pc = "done"]
     IN /\ notifications' = IF valid THEN Append(notifications, doc) ELSE notifications
        /\ req' = [req EXCEPT ![q] = [r0 EXCEPT !.resp = IF valid THEN "201" ELSE "500"]]
  /\ UNCHANGED <<users, buckets, passed, nearby, clock, envMaxMeters, reminders, scan, ttsf, trigLog, lastTts, nScans>>

\* listNotifications: the caller's notifications; nothing is written
ReqListNotifications(q, u) ==
  /\ req[q].pc \in {"idle", "done"}
  /\ ttsf[q].pc = "none"
  /\ nReqs' = nReqs + 1
  /\ req' = [req EXCEPT ![q] = [IdleReq EXCEPT !.kind = "listNotifications", !.user = u,
                                               !.pc = "done", !.resp = "200"]]
  /\ UNCHANGED <<users, buckets, passed, nearby, clock, envMaxMeters, reminders, notifications, scan, ttsf, trigLog, lastTts,
                 nScans>>

ReqMarkReadMutAnyOwner(q, u, id) ==
  /\ req[q].pc \in {"idle", "done"}
  /\ ttsf[q].pc = "none"
  /\ nReqs' = nReqs + 1
  /\ LET found == id \in 1..Len(notifications)
         r0 == [IdleReq EXCEPT !.kind = "markRead", !.user = u, !.rid = id, !.pc = "done"]
     IN /\ notifications' = IF found THEN [notifications EXCEPT ![id].isRead = TRUE]
                            ELSE notifications
        /\ req' = [req EXCEPT ![q] = [r0 EXCEPT !.resp = IF found THEN "200" ELSE "404"]]
  /\ UNCHANGED <<users, buckets, passed, nearby, clock, envMaxMeters, reminders, scan, ttsf, trigLog, lastTts, nScans>>

\* markRead: findOneAndUpdate({ _id: id, userId }, { $set: { isRead: true } })
ReqMarkRead(q, u, id) ==
  /\ req[q].pc \in {"idle", "done"}
  /\ ttsf[q].pc = "none"
  /\ nReqs' = nReqs + 1
  /\ LET found == id \in 1..Len(notifications) /\ notifications[id].userId = u
         r0 == [IdleReq EXCEPT !.kind = "markRead", !.user = u, !.rid = id, !.pc = "done"]
     IN /\ notifications' = IF found THEN [notifications EXCEPT ![id].isRead = TRUE]
                            ELSE notifications
        /\ req' = [req EXCEPT ![q] = [r0 EXCEPT !.resp = IF found THEN "200" ELSE "404"]]
  /\ UNCHANGED <<users, buckets, passed, nearby, clock, envMaxMeters, reminders, scan, ttsf, trigLog, lastTts, nScans>>

\* markAllRead: updateMany({ userId, isRead: { $ne: true } }, { $set: { isRead: true } })
ReqMarkAllRead(q, u) ==
  /\ req[q].pc \in {"idle", "done"}
  /\ ttsf[q].pc = "none"
  /\ nReqs' = nReqs + 1
  /\ notifications' = [i \in 1..Len(notifications) |->
       IF notifications[i].userId = u /\ notifications[i].isRead # TRUE
         THEN [notifications[i] EXCEPT !.isRead = TRUE]
         ELSE notifications[i]]
  /\ req' = [req EXCEPT ![q] = [IdleReq EXCEPT !.kind = "markAllRead", !.user = u,
                                               !.pc = "done", !.resp = "200"]]
  /\ UNCHANGED <<users, buckets, passed, nearby, clock, envMaxMeters, reminders, scan, ttsf, trigLog, lastTts, nScans>>

\* the bodies of createNotification
NoteBodies ==
  { [message |-> "Pay rent"],
    [type |-> "task", message |-> "Report due", isRead |-> TRUE, userId |-> "u2",
     reminderId |-> 1],
    [type |-> "alarm", message |-> "Wake up"],
    [type |-> "meeting"] }

MaxNoteReqs == 5

NotesInit ==
  /\ clock = TuesdayNoon
  /\ envMaxMeters = <<>>
  /\ reminders = [r \in RIds |->
       IF r = 1 THEN NewReminder("u1", "Task", "report") ELSE Absent]
  /\ notifications = <<>>
  /\ scan = [s \in ScanIds |-> IdleScan]
  /\ req = [q \in ReqIds |-> IdleReq]
  /\ ttsf = [p \in Pids |-> NoFrame]
  /\ trigLog = [r \in RIds |-> <<>>]
  /\ lastTts = [r \in RIds |-> NoLast]
  /\ nScans = 0
  /\ nReqs = 0
  /\ users = <<>>
  /\ buckets = <<>>
  /\ passed = <<>>
  /\ nearby = <<>>

NotesNext ==
  \/ \E u \in Users, body \in NoteBodies :
       nReqs < MaxNoteReqs /\ ReqCreateNotification("q1", u, body)
  \/ \E u \in Users : nReqs < MaxNoteReqs /\ ReqListNotifications("q1", u)
  \/ \E u \in Users, id \in 1..MaxNotes : nReqs < MaxNoteReqs /\ ReqMarkRead("q1", u, id)
  \/ \E u \in Users : nReqs < MaxNoteReqs /\ ReqMarkAllRead("q1", u)

SpecNotes == NotesInit /\ [][NotesNext]_vars

\* C28: no step removes a notification or changes the userId, type, message or
\* reminderId of one; isRead changes only from unread to read, and only in a step of
\* markRead on that notification or of markAllRead, called by the notification's owner.
C28_OnlyIsReadChanges ==
  [][/\ Len(notifications') >= Len(notifications)
     /\ \A i \in 1..Len(notifications) :
          LET a == notifications[i]
              b == notifications'[i]
          IN /\ b.userId = a.userId /\ b.type = a.type /\ b.message = a.message
             /\ b.reminderId = a.reminderId
             /\ b.isRead # a.isRead =>
                  /\ ~a.isRead /\ b.isRead
                  /\ nReqs' = nReqs + 1
                  /\ \E q \in ReqIds :
                       /\ req'[q].pc = "done" /\ req'[q].user = a.userId
                       /\ \/ req'[q].kind = "markAllRead"
                          \/ req'[q].kind = "markRead" /\ req'[q].rid = i]_vars

\* a notification of u1 was marked read by u1, and u2's markRead on it was refused
C28_Witness ==
  /\ Len(notifications) >= 2
  /\ notifications[1].userId = "u1" /\ notifications[1].isRead
  /\ notifications[1].message = "Pay rent"
  /\ notifications[2].userId = "u2" /\ ~notifications[2].isRead
  /\ req["q1"].kind = "markRead" /\ req["q1"].user = "u2" /\ req["q1"].rid = 1
  /\ req["q1"].resp = "404"

-----------------------------------------------------------------------------
(* createReminder and updateReminder with and without USE_SYNC_AI *)

ModeBodies ==
  { [type |-> "Task", title |-> "report"],
    [type |-> "Meeting", title |-> "standup", startDate |-> WednesdayTen] }

ModeUpdates == { [title |-> "memo"], [startDate |-> WednesdayTen] }

\* a schedule that the save rejects, a schedule it accepts, and no answer
ModeAnswers ==
  { [kind |-> "throws", obj |-> NoObj],
    [kind |-> "answer", obj |-> [NoObj EXCEPT !.startDateISO = WednesdayTen,
                                              !.scheduleType = "one-day",
                                              !.scheduleTime.minutesBeforeStart = 0 - 5]],
    [kind |-> "answer", obj |-> [NoObj EXCEPT !.startDateISO = WednesdayTen,
                                              !.scheduleType = "one-day"]] }

\* USE_SYNC_AI is one setting of the process: every request sees the same value
SameMode(sync) == \A q \in ReqIds : req[q].kind # "" => req[q].sync = sync

ModeNext ==
  \/ \E body \in ModeBodies, sync \in BOOLEAN :
       nReqs < MaxReqs /\ SameMode(sync) /\ ReqCreate("q1", 1, "u1", body, sync)
  \/ ReqCreateFind("q1")
  \/ \E body \in ModeUpdates, sync \in BOOLEAN :
       nReqs < MaxReqs /\ SameMode(sync) /\ ReqUpdate("q2", 1, "u1", body, sync)
  \/ \E q \in ReqIds : ReqAfterTts(q)
  \/ \E q \in ReqIds : EnrFind(q)
  \/ \E q \in ReqIds, ai \in ModeAnswers : EnrSchedule(q, ai)
  \/ \E q \in ReqIds : EnrFallback(q, TRUE)
  \/ \E q \in ReqIds : EnrLine(q, AiThrows)
  \/ \E q \in ReqIds : EnrDone(q)
  \/ \E p \in ReqIds : TtsFind(p)
  \/ \E p \in ReqIds : TtsSavePending(p)
  \/ \E p \in ReqIds : TtsSynth(p, TRUE)
  \/ DeleteReminder(1, "u1")

SpecMode == CrudInit /\ [][ModeNext]_vars

\* the enrichment pass of q is running
InPassNow(q) == req[q].pc \in {"efind", "esched", "efallback", "eline", "etts"}

\* createReminder or updateReminder of q got as far as the enrichment pass
Enriching(q) ==
  /\ req[q].kind \in {"create", "update"}
  /\ InPassNow(q) \/ (req[q].pc = "done" /\ req[q].resp \in {"200", "201"}
                      /\ req[q].data.exists)

\* C26: without synchronous AI, createReminder and updateReminder have sent their
\* response, holding the reminder as it was before the pass and no metadata, when the
\* pass starts, and nothing the pass does, failing included, changes what was sent;
\* with synchronous AI nothing is sent while the pass runs, and the response sent at
\* its end holds the pass's reminder and metadata, or the earlier reminder and an error.
C26_ResponseOrder ==
  /\ [](\A q \in ReqIds :
          (Enriching(q) /\ ~req[q].sync) =>
            /\ req[q].resp = IF req[q].kind = "create" THEN "201" ELSE "200"
            /\ req[q].sent = [NoSent EXCEPT !.data = req[q].data])
  /\ [][\A q \in ReqIds :
          (InPassNow(q) /\ ~req[q].sync /\ req'[q] # req[q]) =>
            /\ req'[q].resp = req[q].resp /\ req'[q].sent = req[q].sent
            /\ req'[q].data = req[q].data
            /\ InPassNow(q)' \/ req'[q].pc = "done"]_vars
  /\ [](\A q \in ReqIds :
          (Enriching(q) /\ req[q].sync) =>
            IF InPassNow(q) THEN req[q].resp = "none" /\ req[q].sent = NoSent
            ELSE /\ req[q].sent.aiMeta \in {"meta", "error"}
                 /\ req[q].sent.aiMeta = "meta" =>
                      /\ req[q].orig.exists /\ ~req[q].threw
                      /\ req[q].sent.data = req[q].rem
                      /\ req[q].sent.scheduleSource = req[q].scheduleSource
                      /\ req[q].sent.lineSource = req[q].lineSource
                 /\ req[q].sent.aiMeta = "error" =>
                      /\ ~req[q].orig.exists \/ req[q].threw
                      /\ req[q].sent.data = req[q].data)

\* a fire-and-forget pass of createReminder failed after 201 had been sent
C26_Witness ==
  \E q \in ReqIds :
    /\ req[q].kind = "create" /\ ~req[q].sync /\ req[q].pc = "done" /\ req[q].threw
    /\ req[q].resp = "201" /\ req[q].sent = [NoSent EXCEPT !.data = req[q].data]

-----------------------------------------------------------------------------
(* Side effects of a scan, per candidate *)

\* C31: the steps of a scan up to and including the one that skips a candidate change
\* no reminder and create no notification, so a skipped candidate's document is as the
\* scan read it and no notification is linked to it; a scan step creates at most one
\* notification, of type location, for the candidate it reports as triggered in that
\* same step.
C31_SkipNoEffect ==
  /\ [][\A s \in ScanIds :
          LET n == Len(scan[s].out)
              id == scan[s].cands[scan[s].idx].id
          IN /\ (scan[s].pc \in {"loop", "places", "collision"} /\ scan'[s] # scan[s]) =>
                  (reminders' = reminders /\ notifications' = notifications)
             /\ (scan'[s] # scan[s] /\ notifications' # notifications) =>
                  /\ Len(notifications') = Len(notifications) + 1
                  /\ SubSeq(notifications', 1, Len(notifications)) = notifications
                  /\ notifications'[Len(notifications')].type = "location"
                  /\ notifications'[Len(notifications')].reminderId = id
                  /\ notifications'[Len(notifications')].userId = scan[s].user
                  /\ Len(scan'[s].out) = n + 1
                  /\ ~scan'[s].out[n + 1].skipped
                  /\ scan'[s].out[n + 1].reminderId = id]_vars
  /\ [](\A x \in AllOutcomes :
          x.o.skipped =>
            /\ reminders[x.o.reminderId] \in {x.r, Absent}
            /\ \A i \in 1..Len(notifications) : notifications[i].reminderId # x.o.reminderId)

\* one candidate was skipped at the collision gate and its document is as it was read
C31_Witness ==
  \E x \in AllOutcomes :
    /\ x.o.skipped /\ x.o.reason = "collision"
    /\ reminders[x.o.reminderId] = x.r
    /\ \E y \in AllOutcomes : y.o.reason = "no_keyword"

-----------------------------------------------------------------------------
(* The day filter on every weekday *)

\* noon of seven consecutive days
DayClocks == {k * DayMs + 12 * HourMs : k \in 7..13}

LegacyDays == SeqToSet(DayNames) \cup {""}

DayInit ==
  /\ clock \in DayClocks
  /\ envMaxMeters = <<>>
  /\ \E day \in LegacyDays, days \in {<<>>, <<0, 6>>} :
       reminders = [r \in RIds |->
         IF r = 1 THEN [NewReminder("u1", "Location", "cafe") EXCEPT
                          !.day = day, !.scheduleDays = days]
         ELSE Absent]
  /\ notifications = <<>>
  /\ scan = [s \in ScanIds |-> IdleScan]
  /\ req = [q \in ReqIds |-> IdleReq]
  /\ ttsf = [p \in Pids |-> NoFrame]
  /\ trigLog = [r \in RIds |-> <<>>]
  /\ lastTts = [r \in RIds |-> NoLast]
  /\ nScans = 0
  /\ nReqs = 0
  /\ users = <<>>
  /\ buckets = <<>>
  /\ passed = <<>>
  /\ nearby = <<>>

\* the places lookup finds nothing here
DayNext ==
  \/ ScanStart("s1", "u1")
  \/ ScanFind("s1")
  \/ ScanFilter("s1")
  \/ ScanPlaces("s1", NoPlace)
  \/ ScanRespond("s1")

SpecDay == DayInit /\ [][DayNext]_vars

\* C32: a candidate with empty scheduleDays is skipped with day_mismatch exactly when
\* its legacy day string is set and is not the name of the scan's weekday; with no
\* legacy day either it passes the day filter on every weekday.
C32_LegacyDay ==
  \A x \in AllOutcomes :
    Len(x.r.scheduleDays) = 0 =>
      LET today == DayNames[((x.now \div 86400000) % 7) + 1]
      IN /\ x.o.reason = "day_mismatch" <=> (x.r.day # "" /\ x.r.day # today)
         /\ x.o.reason # "day_mismatch" => "throttle" \in x.o.ran

\* a legacy day of Saturday passed on a Saturday
C32_Witness ==
  \E x \in AllOutcomes :
    /\ Len(x.r.scheduleDays) = 0 /\ x.r.day = "Saturday"
    /\ (x.now \div 86400000) % 7 = 6
    /\ x.o.reason = "no_places_match"

-----------------------------------------------------------------------------
(* The speech stage's status protocol and the stored audio *)

\* frame p ends its call in this step
TtsEnds(p) == ttsf[p].pc \in {"find", "pending", "synth"} /\ ttsf'[p].pc \in {"ret", "thrown"}

C34_StagePersisted ==
  [][\A q \in ReqIds :
       LET r == req'[q]
           stored == reminders'[r.rid]
       IN /\ (req[q].pc \in {"esched", "efallback"} /\ r.pc = "eline"
                /\ r.scheduleSource # "" /\ stored.exists) =>
               /\ stored.startDate = r.rem.startDate
               /\ stored.scheduleType = r.rem.scheduleType
          /\ (req[q].pc = "eline" /\ r.pc = "etts") =>
               stored.aiNotificationLine = r.rem.aiNotificationLine]_vars

-----------------------------------------------------------------------------
(* The fallback heuristic, slot by slot *)

\* the slot now + k hours is in working hours and no reminder of the user starts at it
SlotFree(userId, now, k) ==
  LET d == now + k * HourMs
      h == (d % DayMs) \div HourMs
  IN /\ 9 <= h /\ h < 18
     /\ \A r \in RIds : (reminders[r].exists /\ reminders[r].user = userId) =>
                           reminders[r].startDate # d

RECURSIVE EarliestSlot(_, _, _)
EarliestSlot(userId, now, k) ==
  IF k > 7 * 24 THEN NoDate
  ELSE IF SlotFree(userId, now, k) THEN now + k * HourMs
  ELSE EarliestSlot(userId, now, k + 1)

\* C35: findSmartSlot walks the hourly slots now + 1h, now + 2h, ... up to now + 7d,
\* keeps those whose hour of day h has 9 <= h < 18, and returns the earliest one at
\* which no reminder of the user starts, or null when there is none; the schedule made
\* from it is one-day with a 10-minute lead time, and without a slot nothing is applied.
C35_HeuristicSlot ==
  /\ [](\A u \in Users : findSmartSlot(u, clock) = EarliestSlot(u, clock, 1))
  /\ [][\A q \in ReqIds :
          (req[q].pc = "efallback" /\ req'[q].pc = "eline") =>
            IF req'[q].scheduleSource = "fallback"
              THEN /\ req'[q].rem.startDate = EarliestSlot(req[q].rem.user, req[q].now, 1)
                   /\ req'[q].rem.startDate # NoDate
                   /\ req'[q].rem.scheduleType = "one-day"
                   /\ req'[q].rem.scheduleDays = <<>>
                   /\ req'[q].rem.scheduleTime.minutesBeforeStart = 10
                   /\ req'[q].rem.notificationPreferenceMinutes = 10
              ELSE req'[q].rem = req[q].rem]_vars

\* at 17:30 the slots of the evening and the night are outside working hours and the
\* user's standup takes 09:30, so the heuristic chose 10:30
C35_Witness ==
  \E q \in ReqIds :
    /\ req[q].scheduleSource = "fallback"
    /\ (req[q].now % DayMs) = 17 * HourMs + 30 * MinuteMs
    /\ \E r \in RIds : reminders[r].exists /\ reminders[r].user = req[q].rem.user
                       /\ reminders[r].startDate = req[q].now + 16 * HourMs
    /\ req[q].rem.startDate = req[q].now + 17 * HourMs

-----------------------------------------------------------------------------
(* The places lookup (nearbyBestPlaceByKeyword), one action per request *)

NearbyIds == {"k1", "k2"}

\* a result of the Places API as it arrives: with or without geometry
RawPlace(id, rating, geo) ==
  [place_id |-> id, name |-> "Cafe " \o id, rating |-> rating, geometry |-> geo,
   vicinity |-> "Main St"]

RawA == RawPlace("pa", 3, TRUE)
RawB == RawPlace("pb", 5, FALSE)

\* normalizePlace: the fields kept of one result
normalizePlace(result) ==
  [kind |-> "place", coords |-> result.geometry, lat |-> 0, lng |-> 0,
   placeId |-> result.place_id, name |-> result.name, rating |-> result.rating]

\* what axios.get resolves with or rejects: a rejected request, or a response with its
\* status and data.results (isArray is FALSE when the body carries no such array)
RequestFails == [kind |-> "fails", status |-> 0, isArray |-> FALSE, results |-> <<>>]
Response(status, isArray, results) ==
  [kind |-> "response", status |-> status, isArray |-> isArray, results |-> results]
NoRequest == [kind |-> "none", status |-> 0, isArray |-> FALSE, results |-> <<>>]

\* Array.isArray(resp?.data?.results) ? resp.data.results : []
ResultsOf(resp) ==
  IF resp.kind = "response" /\ resp.isArray THEN resp.results ELSE <<>>

IdleNearby == [pc |-> "idle", key |-> "", results |-> <<>>, issued |-> <<>>,
               first |-> NoRequest, second |-> NoRequest, res |-> NoPlace]

NearbyFinishMutByRating(f, results) ==
  IF Len(results) = 0 THEN [f EXCEPT !.pc = "ret", !.results = results, !.res = NoPlace]
  ELSE LET normalized == [i \in 1..Len(results) |-> normalizePlace(results[i])]
           best == CHOOSE i \in 1..Len(normalized) :
                     \A j \in 1..Len(normalized) :
                        \/ normalized[i].rating > normalized[j].rating
                        \/ (normalized[i].rating = normalized[j].rating /\ i <= j)
       IN [f EXCEPT !.pc = "ret", !.results = results, !.res = normalized[best]]

\* if (!results.length) return null; normalized = results.map(normalizePlace)
\* .filter(Boolean); return normalized[0]
NearbyFinish(f, results) ==
  IF Len(results) = 0 THEN [f EXCEPT !.pc = "ret", !.results = results, !.res = NoPlace]
  ELSE LET normalized == [i \in 1..Len(results) |-> normalizePlace(results[i])]
       IN [f EXCEPT !.pc = "ret", !.results = results, !.res = normalized[1]]

\* the function is entered: without GOOGLE_MAPS_API_KEY it throws, else the
\* rankby=distance request is issued
NearbyCall(k, key) ==
  /\ nearby[k].pc \in {"idle", "ret", "thrown"}
  /\ nearby' = [nearby EXCEPT ![k] =
       IF key = "" THEN [IdleNearby EXCEPT !.pc = "thrown"]
       ELSE [IdleNearby EXCEPT !.pc = "distance", !.key = key, !.issued = <<"distance">>]]
  /\ UNCHANGED <<clock, envMaxMeters, reminders, notifications, scan, req, ttsf, trigLog,
                 lastTts, nScans, nReqs, users, buckets, passed>>

\* the distance request settles (a rejection is only logged); without results the
\* radius request is issued
NearbyDistance(k, resp) ==
  /\ nearby[k].pc = "distance"
  /\ LET results == ResultsOf(resp)
         f == [nearby[k] EXCEPT !.first = resp]
     IN nearby' = [nearby EXCEPT ![k] =
          IF Len(results) = 0
            THEN [f EXCEPT !.pc = "radius", !.results = results,
                           !.issued = Append(@, "radius")]
            ELSE NearbyFinish(f, results)]
  /\ UNCHANGED <<clock, envMaxMeters, reminders, notifications, scan, req, ttsf, trigLog,
                 lastTts, nScans, nReqs, users, buckets, passed>>

\* the radius request settles: a rejection propagates, a status other than 200 throws
NearbyRadius(k, resp) ==
  /\ nearby[k].pc = "radius"
  /\ LET f == [nearby[k] EXCEPT !.second = resp]
     IN nearby' = [nearby EXCEPT ![k] =
          IF resp.kind = "fails" \/ resp.status # 200 THEN [f EXCEPT !.pc = "thrown"]
          ELSE NearbyFinish(f, ResultsOf(resp))]
  /\ UNCHANGED <<clock, envMaxMeters, reminders, notifications, scan, req, ttsf, trigLog,
                 lastTts, nScans, nReqs, users, buckets, passed>>

NearbyKeys == {"", "key"}

NearbyResponses ==
  {RequestFails} \cup
  {Response(st, FALSE, <<>>) : st \in {200, 204}} \cup
  {Response(st, TRUE, rs) : st \in {200, 204},
                            rs \in {<<>>, <<RawA>>, <<RawA, RawB>>, <<RawB, RawA>>}}

NearbyInit ==
  /\ clock = TuesdayNoon
  /\ envMaxMeters = <<>>
  /\ reminders = [r \in RIds |-> Absent]
  /\ notifications = <<>>
  /\ scan = [s \in ScanIds |-> IdleScan]
  /\ req = [q \in ReqIds |-> IdleReq]
  /\ ttsf = [p \in Pids |-> NoFrame]
  /\ trigLog = [r \in RIds |-> <<>>]
  /\ lastTts = [r \in RIds |-> NoLast]
  /\ nScans = 0
  /\ nReqs = 0
  /\ users = <<>>
  /\ buckets = <<>>
  /\ passed = <<>>
  /\ nearby = [k \in NearbyIds |-> IdleNearby]

NearbyNext ==
  \/ \E k \in NearbyIds, key \in NearbyKeys : NearbyCall(k, key)
  \/ \E k \in NearbyIds, resp \in NearbyResponses : NearbyDistance(k, resp)
  \/ \E k \in NearbyIds, resp \in NearbyResponses : NearbyRadius(k, resp)

SpecNearby == NearbyInit /\ [][NearbyNext]_vars

\* the request of a call yielded no results: it failed, or its results are missing or empty
YieldedNothing(resp) ==
  resp.kind # "response" \/ ~resp.isArray \/ resp.results = <<>>

\* the place made of the first result resp carries
FirstOf(resp) ==
  LET raw == resp.results[1]
  IN [kind |-> "place", coords |-> raw.geometry, lat |-> 0, lng |-> 0,
      placeId |-> raw.place_id, name |-> raw.name, rating |-> raw.rating]

-----------------------------------------------------------------------------
(* The text-hash poll of the trigger path, against the wall clock *)

PollOutcomes == {"throws", "", "vX::Hey Ada, you are near cafe."}

\* how far the clock moves in one step
PollTicks == {125, 250}

\* time passes while a timer of the poll runs, or while a call made by the poll is in
\* flight and the ceiling has not passed
PollTick(s, d) ==
  /\ \/ scan[s].pc = "sleep" /\ clock < scan[s].wake
     \/ /\ scan[s].pc = "tts" /\ ttsf[s].pc = "find"
        /\ scan[s].startTs # NoDate /\ clock - scan[s].startTs < PollCeilingMs
  /\ Tick(d)

PollNext ==
  \/ ScanStart("s1", "u1")
  \/ ScanFind("s1")
  \/ ScanFilter("s1")
  \/ ScanPlaces("s1", PlaceAt(90))
  \/ ScanCollision("s1")
  \/ ScanUpdate("s1")
  \/ ScanLine("s1", AiThrows)
  \/ \E out \in PollOutcomes : TtsOutcome("s1", out)
  \/ ScanPollEnter("s1")
  \/ ScanPollSleep("s1")
  \/ ScanPollWake("s1")
  \/ \E d \in PollTicks : PollTick("s1", d)
  \/ \E ok \in BOOLEAN : ScanNotify("s1", ok)
  \/ ScanRespond("s1")

\* every call of ensureReminderTTS settles, timers fire and time passes
SpecPoll == PairInit /\ [][PollNext]_vars /\ WF_vars(PollNext)

\* C37: whatever ensureReminderTTS does (return a hash, return none, throw), the
\* trigger path makes at most one call plus one per 250 ms of the 2-second ceiling for
\* a candidate, and from the speech call on it always reaches the notification write and
\* moves on to the next candidate.
C37_PollTerminates ==
  /\ [](\A s \in ScanIds : scan[s].calls <= 1 + PollCeilingMs \div PollSleepMs)
  /\ \A s \in ScanIds :
       (scan[s].pc \in {"tts", "sleep"}) ~> (scan[s].pc \in {"loop", "done"})
  /\ [][\A s \in ScanIds :
          (scan[s].pc \in {"tts", "notify"} /\ scan'[s].pc = "loop") =>
            /\ scan'[s].idx = scan[s].idx + 1
            /\ Len(scan'[s].out) = Len(scan[s].out) + 1]_vars

\* the second candidate's poll used every call the ceiling allows and was left
C37_Witness ==
  \E s \in ScanIds :
    /\ scan[s].pc = "notify" /\ scan[s].idx = 2
    /\ scan[s].calls = 1 + PollCeilingMs \div PollSleepMs
    /\ clock - scan[s].startTs = PollCeilingMs


\* C38: in every stored state, audio that is present was synthesized from the voice and
\* text whose hash is tts.textHash, so what getReminderTTS streams is the audio of the
\* text the stored fingerprint names, also after a regeneration that failed.
C38_AudioMatchesHash ==
  /\ \A r \in RIds :
       (reminders[r].exists /\ reminders[r].tts.audio # "") =>
          reminders[r].tts.audio = reminders[r].tts.textHash
  /\ \A q \in ReqIds :
       (req[q].kind = "getTts" /\ req[q].resp = "200") =>
          req[q].data.tts.audio = req[q].data.tts.textHash

-----------------------------------------------------------------------------
(* controllers/authController.js: the OTP password reset *)

\* new Date(Date.now() + 5 * 60 * 1000)
OtpTtlMs == 5 * MinuteMs

Emails == {"ada@x.io"}
UnknownEmail == "nobody@x.io"

\* a user document, reduced to what the reset handlers select; resetOtpHash 0 and
\* resetOtpExpiry NoDate stand for undefined, and bcrypt.hash of the n-th OTP sent is n.
\* History: issued counts the OTPs stored, verifiedSince says that a verifyOtp of the
\* stored OTP was saved after it was stored, resets counts the password changes.
NewUser == [password |-> "old", resetOtpHash |-> 0, resetOtpExpiry |-> NoDate,
            resetOtpVerified |-> FALSE, issued |-> 0, verifiedSince |-> FALSE, resets |-> 0]

NoUser == [NewUser EXCEPT !.password = ""]

IdleAuth == [pc |-> "idle", kind |-> "", email |-> "", otp |-> 0, newPassword |-> "",
             user |-> NoUser, at |-> NoDate, resp |-> "none"]

\* User.findOne({ email })
FindUser(email) == IF email \in DOMAIN users THEN users[email] ELSE NoUser

\* forgotPassword: the user is read; without one the generic answer is sent, else an
\* OTP is drawn and hashed
ForgotFind(q, email) ==
  /\ req[q].pc \in {"idle", "done"}
  /\ nReqs' = nReqs + 1
  /\ req' = [req EXCEPT ![q] =
       IF email \notin DOMAIN users
         THEN [IdleAuth EXCEPT !.kind = "forgot", !.email = email, !.pc = "done", !.resp = "200"]
         ELSE [IdleAuth EXCEPT !.kind = "forgot", !.email = email, !.user = users[email],
                               !.pc = "fsave"]]
  /\ UNCHANGED <<clock, envMaxMeters, reminders, notifications, scan, ttsf, trigLog, lastTts,
                 nScans, users, buckets, passed, nearby>>

\* user.resetOtpHash = otpHash; user.resetOtpExpiry = now + 5 min;
\* user.resetOtpVerified = false; await user.save(): the paths that changed against the
\* document read are written; the OTP is mailed and the generic answer sent
ForgotSave(q) ==
  /\ req[q].pc = "fsave"
  /\ LET e == req[q].email
     IN users' = [users EXCEPT ![e] =
          [@ EXCEPT !.resetOtpHash = users[e].issued + 1,
                    !.resetOtpExpiry = clock + OtpTtlMs,
                    !.resetOtpVerified = IF req[q].user.resetOtpVerified THEN FALSE ELSE @,
                    !.issued = @ + 1,
                    !.verifiedSince = FALSE]]
  /\ req' = [req EXCEPT ![q].pc = "done", ![q].resp = "200"]
  /\ UNCHANGED <<clock, envMaxMeters, reminders, notifications, scan, ttsf, trigLog, lastTts,
                 nScans, nReqs, buckets, passed, nearby>>

\* verifyOtp: the user is read; no user, no OTP stored, an expired OTP or one that
\* bcrypt.compare does not match is answered with 400
VerifyFind(q, email, otp) ==
  /\ req[q].pc \in {"idle", "done"}
  /\ nReqs' = nReqs + 1
  /\ LET user == FindUser(email)
         r0 == [IdleAuth EXCEPT !.kind = "verify", !.email = email, !.otp = otp,
                                !.user = user, !.at = clock]
     IN req' = [req EXCEPT ![q] =
          IF email \notin DOMAIN users \/ user.resetOtpHash = 0 \/ user.resetOtpExpiry = NoDate
            THEN [r0 EXCEPT !.pc = "done", !.resp = "400"]
          ELSE IF user.resetOtpExpiry < clock THEN [r0 EXCEPT !.pc = "done", !.resp = "400"]
          ELSE IF otp # user.resetOtpHash THEN [r0 EXCEPT !.pc = "done", !.resp = "400"]
          ELSE [r0 EXCEPT !.pc = "vsave"]]
  /\ UNCHANGED <<clock, envMaxMeters, reminders, notifications, scan, ttsf, trigLog, lastTts,
                 nScans, users, buckets, passed, nearby>>

\* user.resetOtpVerified = true; await user.save()
VerifySave(q) ==
  /\ req[q].pc = "vsave"
  /\ LET e == req[q].email
     IN users' = [users EXCEPT ![e] =
          [@ EXCEPT !.resetOtpVerified = IF req[q].user.resetOtpVerified THEN @ ELSE TRUE,
                    !.verifiedSince = (req[q].user.resetOtpHash = users[e].resetOtpHash)]]
  /\ req' = [req EXCEPT ![q].pc = "done", ![q].resp = "200"]
  /\ UNCHANGED <<clock, envMaxMeters, reminders, notifications, scan, ttsf, trigLog, lastTts,
                 nScans, nReqs, buckets, passed, nearby>>

\* resetPassword: the user is read; without one, without the verified flag or past the
\* expiry the answer is 400
ResetFind(q, email, newPassword) ==
  /\ req[q].pc \in {"idle", "done"}
  /\ nReqs' = nReqs + 1
  /\ LET user == FindUser(email)
         r0 == [IdleAuth EXCEPT !.kind = "reset", !.email = email,
                                !.newPassword = newPassword, !.user = user, !.at = clock]
     IN req' = [req EXCEPT ![q] =
          IF email \notin DOMAIN users THEN [r0 EXCEPT !.pc = "done", !.resp = "400"]
          ELSE IF \/ ~user.resetOtpVerified
                  \/ user.resetOtpExpiry = NoDate
                  \/ user.resetOtpExpiry < clock
            THEN [r0 EXCEPT !.pc = "done", !.resp = "400"]
          ELSE [r0 EXCEPT !.pc = "rsave"]]
  /\ UNCHANGED <<clock, envMaxMeters, reminders, notifications, scan, ttsf, trigLog, lastTts,
                 nScans, users, buckets, passed, nearby>>

\* user.password = newPassword; the OTP fields are cleared; await user.save()
ResetSave(q) ==
  /\ req[q].pc = "rsave"
  /\ LET e == req[q].email
         read == req[q].user
     IN users' = [users EXCEPT ![e] =
          [@ EXCEPT !.password = req[q].newPassword,
                    !.resetOtpHash = IF read.resetOtpHash # 0 THEN 0 ELSE @,
                    !.resetOtpExpiry = NoDate,
                    !.resetOtpVerified = FALSE,
                    !.verifiedSince = FALSE,
                    !.resets = @ + 1]]
  /\ req' = [req EXCEPT ![q].pc = "done", ![q].resp = "200"]
  /\ UNCHANGED <<clock, envMaxMeters, reminders, notifications, scan, ttsf, trigLog, lastTts,
                 nScans, nReqs, buckets, passed, nearby>>

MaxOtpReqs == 4
MaxOtpTicks == 2
OtpStep == 3 * MinuteMs

\* the OTPs a client may send: the ones mailed so far, or a guess
OtpGuesses == {1, 2, 99}

OtpInit ==
  /\ clock = TuesdayNoon
  /\ envMaxMeters = <<>>
  /\ reminders = [r \in RIds |-> Absent]
  /\ notifications = <<>>
  /\ scan = [s \in ScanIds |-> IdleScan]
  /\ req = [q \in ReqIds |-> IdleAuth]
  /\ ttsf = [p \in Pids |-> NoFrame]
  /\ trigLog = [r \in RIds |-> <<>>]
  /\ lastTts = [r \in RIds |-> NoLast]
  /\ nScans = 0
  /\ nReqs = 0
  /\ users = [e \in Emails |-> NewUser]
  /\ buckets = <<>>
  /\ passed = <<>>
  /\ nearby = <<>>

OtpNext ==
  \/ \E q \in ReqIds, e \in Emails \cup {UnknownEmail} :
       nReqs < MaxOtpReqs /\ ForgotFind(q, e)
  \/ \E q \in ReqIds : ForgotSave(q)
  \/ \E q \in ReqIds, e \in Emails \cup {UnknownEmail}, otp \in OtpGuesses :
       nReqs < MaxOtpReqs /\ VerifyFind(q, e, otp)
  \/ \E q \in ReqIds : VerifySave(q)
  \/ \E q \in ReqIds, e \in Emails \cup {UnknownEmail} :
       nReqs < MaxOtpReqs /\ ResetFind(q, e, "new")
  \/ \E q \in ReqIds : ResetSave(q)
  \/ clock < TuesdayNoon + MaxOtpTicks * OtpStep /\ Tick(OtpStep)

SpecOtp == OtpInit /\ [][OtpNext]_vars

\* C39: resetPassword changes the password only if a verifyOtp of the OTP of the most
\* recent forgotPassword was saved since that forgotPassword and the reset is made
\* before that OTP expires; a reset that succeeded leaves no OTP state behind; and when
\* a forgotPassword has stored its OTP the verified flag is false.
C39_OtpProtocol ==
  [][\A e \in Emails :
       /\ users'[e].resets # users[e].resets =>
            /\ users[e].verifiedSince
            /\ \E q \in ReqIds : /\ req[q].pc = "rsave" /\ req'[q].pc = "done"
                                 /\ req[q].at <= users[e].resetOtpExpiry
            /\ users'[e].resetOtpHash = 0
            /\ users'[e].resetOtpExpiry = NoDate
            /\ ~users'[e].resetOtpVerified
       /\ users'[e].issued # users[e].issued => ~users'[e].resetOtpVerified]_vars

-----------------------------------------------------------------------------
(* middleware/rateLimiter.js, as mounted in routes/authRoutes.js *)

\* rateLimit({ windowMs: 60 * 1000, max: 5, keyType: 'email' }) and the like
Limiter(route) ==
  IF route = "forgot-password" THEN [windowMs |-> 60 * 1000, max |-> 5, keyType |-> "email"]
  ELSE IF route = "verify-otp" THEN [windowMs |-> 60 * 1000, max |-> 10, keyType |-> "email"]
  ELSE [windowMs |-> 60 * 1000, max |-> 5, keyType |-> "ip"]

LimitedRoutes == {"forgot-password", "verify-otp"}

\* String.prototype.toLowerCase on the addresses used here
toLowerCase(str) == IF str = "Ada@X.io" THEN "ada@x.io" ELSE str

\* the key of a request: email:<lower-cased address> when the limiter is keyed by
\* email and the body has one, else ip:<address>
makeKey(r, keyType) ==
  IF keyType = "email" /\ r.email # "" THEN "email:" \o toLowerCase(r.email)
  ELSE "ip:" \o r.ip

PruneMutInclusive(arr, now, windowMs) ==
  SelectSeq(arr, LAMBDA t : ~(now - t >= windowMs))

\* while (arr.length && (now - arr[0]) > windowMs) arr.shift(); arr is in time order
Prune(arr, now, windowMs) ==
  SelectSeq(arr, LAMBDA t : ~(now - t > windowMs))

NoPassed == [times |-> <<>>, rejected |-> 0]

\* the middleware, for one request r on a route: prune, then 429 or push and next().
\* History: passed[route, key] gets the time of a request passed on, or one more rejection.
RateLimit(route, r) ==
  LET lim == Limiter(route)
      key == makeKey(r, lim.keyType)
      now == clock
      arr == Prune(IF key \in DOMAIN buckets THEN buckets[key] ELSE <<>>, now, lim.windowMs)
      pass == ~(Len(arr) >= lim.max)
      was == IF <<route, key>> \in DOMAIN passed THEN passed[<<route, key>>] ELSE NoPassed
  IN /\ buckets' = [k \in DOMAIN buckets \cup {key} |->
                      IF k = key THEN (IF pass THEN Append(arr, now) ELSE arr)
                      ELSE buckets[k]]
     /\ passed' = [p \in DOMAIN passed \cup {<<route, key>>} |->
                     IF p = <<route, key>>
                       THEN IF pass THEN [was EXCEPT !.times = Append(@, now)]
                            ELSE [was EXCEPT !.rejected = @ + 1]
                       ELSE passed[p]]
     /\ nReqs' = nReqs + 1
     /\ UNCHANGED <<clock, envMaxMeters, reminders, notifications, scan, req, ttsf, trigLog,
                    lastTts, nScans, users, nearby>>

MaxLimiterReqs == 7

\* req.body.email and req.ip of the requests made
LimiterRequests ==
  {[email |-> e, ip |-> "10.0.0.1"] : e \in {"", "ada@x.io", "Ada@X.io"}}

\* the instants at which requests arrive: a start, the end of its window, 1 ms later
LimiterClocks == {TuesdayNoon, TuesdayNoon + 60 * 1000, TuesdayNoon + 60 * 1000 + 1}

LimiterInit ==
  /\ clock = TuesdayNoon
  /\ envMaxMeters = <<>>
  /\ reminders = [r \in RIds |-> Absent]
  /\ notifications = <<>>
  /\ scan = [s \in ScanIds |-> IdleScan]
  /\ req = [q \in ReqIds |-> IdleReq]
  /\ ttsf = [p \in Pids |-> NoFrame]
  /\ trigLog = [r \in RIds |-> <<>>]
  /\ lastTts = [r \in RIds |-> NoLast]
  /\ nScans = 0
  /\ nReqs = 0
  /\ users = <<>>
  /\ buckets = <<>>
  /\ passed = <<>>
  /\ nearby = <<>>

LimiterNext ==
  \/ \E route \in LimitedRoutes, r \in LimiterRequests :
       nReqs < MaxLimiterReqs /\ RateLimit(route, r)
  \/ \E t \in LimiterClocks : t > clock /\ Tick(t - clock)

SpecLimiter == LimiterInit /\ [][LimiterNext]_vars

\* the requests of p passed on in the window that starts at time t
PassedIn(p, t, windowMs) ==
  {i \in 1..Len(passed[p].times) : passed[p].times[i] >= t /\ passed[p].times[i] <= t + windowMs}

\* b is what is left of a when entries are dropped from its front
IsSuffix(b, a) ==
  Len(b) <= Len(a) /\ \A i \in 1..Len(b) : b[i] = a[Len(a) - Len(b) + i]

\* C40: for every limiter and every key, at most max requests with that key are passed
\* on within any interval as long as the window; a request answered 429 adds nothing
\* to its bucket; and a request leaves the buckets of all other keys as they were.
C40_RateBound ==
  /\ [](\A p \in DOMAIN passed :
          \A i \in 1..Len(passed[p].times) :
             Cardinality(PassedIn(p, passed[p].times[i], Limiter(p[1]).windowMs))
               <= Limiter(p[1]).max)
  /\ [][\A p \in DOMAIN passed' :
          LET was == IF p \in DOMAIN passed THEN passed[p] ELSE NoPassed
              old == IF p[2] \in DOMAIN buckets THEN buckets[p[2]] ELSE <<>>
          IN /\ passed'[p].rejected # was.rejected =>
                  /\ IsSuffix(buckets'[p[2]], old)
                  /\ passed'[p].times = was.times
             /\ passed'[p] # was =>
                  \A k \in DOMAIN buckets : k # p[2] => buckets'[k] = buckets[k]]_vars

\* five requests for one address were passed on at the start, a sixth at the end of
\* the window was rejected, and one a millisecond later was passed on
C40_Witness ==
  \E p \in DOMAIN passed :
    /\ p[1] = "forgot-password"
    /\ Len(passed[p].times) = 6
    /\ passed[p].times[5] = TuesdayNoon
    /\ passed[p].times[6] = TuesdayNoon + 60 * 1000 + 1
    /\ passed[p].rejected = 1
====
